---- MODULE Spec2Model ----
(***************************************************************************)
(* A model of librescoot/uplink-server: the event log, the state store     *)
(* and the peer Session / connection registry, each with its persistence   *)
(* and its publish/subscribe side, as the Go sources implement them.       *)
(*                                                                         *)
(* Every subsystem has its own specification (SpecEvents, SpecState,       *)
(* SpecSess); the variables of the other subsystems stay at their initial  *)
(* value there.  Goroutines are modelled as tasks with a position (pc);    *)
(* a step is what a goroutine does between two points at which another     *)
(* goroutine can observe or change the shared data (lock boundaries and    *)
(* system calls).                                                          *)
(***************************************************************************)
EXTENDS Integers, Sequences, FiniteSets, TLC

(***************************************************************************)
(* Bounds of the model                                                     *)
(***************************************************************************)
\* events appended over one run of the event log
MaxAppends == 3
\* the cap handed to NewEventStore (main.go passes 1000, the tests 5 and 100)
MaxPerScooter == 2
\* event-log subscribers over one run
MaxEventSubs == 1
\* mutating calls (UpdateState, UpdateChanges, SetVersion, RemoveState) and
\* writes of callers to the records they were handed, over one run of the state store
MaxStoreOps == 2
\* state-store subscribers over one run
MaxStateSubs == 1
\* peer Sessions accepted over one run
MaxSessions == 2
\* inputs from outside over one run of the Sessions: peer frames, commands,
\* keeper ticks and transport faults
MaxInputs == 3
\* presence subscribers over one run
MaxPresenceSubs == 1
\* frames applied, events stored and Sessions registered while an observer is watched
MaxLive == 2
\* capacity of a Session's send queue (models.NewConnection makes it 256)
SendChanCap == 1
\* the last instant of the clock, in half microseconds
MaxClock == 4
\* the idle timeout of the configuration when it has one, in clock ticks
IdleTimeout == 1
\* successful SendCommand calls
MaxCommands == 2
\* ticks of one reader's rate limiter that find room in its channel
MaxTicks == 3
\* command responses dispatched over one run
MaxResponses == 2
\* the response store's TTL in clock ticks (main.go passes one hour)
Ttl == 1

Peers == {"p1", "p2"}

None == "none"

(***************************************************************************)
(* Generic helpers                                                         *)
(***************************************************************************)
RECURSIVE Reverse(_)
Reverse(s) == IF s = <<>> THEN <<>> ELSE Append(Reverse(Tail(s)), Head(s))

FirstN(s, n) == IF n < Len(s) THEN SubSeq(s, 1, n) ELSE s

RECURSIVE FilterSeq(_, _)
\* the subsequence of the records of s whose ScooterID is p
FilterSeq(s, p) ==
  IF s = <<>> THEN <<>>
  ELSE IF Head(s).ScooterID = p THEN <<Head(s)>> \o FilterSeq(Tail(s), p)
       ELSE FilterSeq(Tail(s), p)

\* s without its element at index i
RemoveAt(s, i) == SubSeq(s, 1, i - 1) \o SubSeq(s, i + 1, Len(s))

\* a Go map m with key k set to v
MapSet(m, k, v) == [x \in DOMAIN m \cup {k} |-> IF x = k THEN v ELSE m[x]]

\* a Go map m with key k deleted
MapDelete(m, k) == [x \in DOMAIN m \ {k} |-> m[x]]

EmptyMap == [x \in {} |-> None]

(***************************************************************************)
(* State                                                                   *)
(***************************************************************************)
\* the event log (storage.EventStore)
VARIABLES
  esEvents,     \* EventStore.events: scooter id -> list of events, newest first
  esFile,       \* the lines of the events file, in file order
  esSubs,       \* EventStore.subscribers: the queue of every subscriber channel
  esPc,         \* per calling goroutine: where it is inside AddEvent
  esArg,        \* per calling goroutine: the event AddEvent is carrying
  esLog,        \* history: per peer, the events in the order AddEvent stored them
  esDeleted,    \* history: per peer, whether DeleteEvent or ClearEvents changed its list
  esJust        \* history: the peer and event of the AddEvent that stored last, until the next change

esVars == <<esEvents, esFile, esSubs, esPc, esArg, esLog, esDeleted, esJust>>

\* the state store (storage.StateStore), see the section below
VARIABLES
  ssStates,    \* StateStore.states: scooter id -> index of its record in ssRecs
  ssRecs,      \* the ScooterState records ever allocated: [State: address in ssTop, Version]
  ssTop,       \* heap of top-level maps
  ssNest,      \* heap of nested maps
  ssLocked,    \* StateStore.mu is held by a goroutine that panicked inside UpdateChanges
  ssSubs,      \* StateStore.subscribers: the queue of every subscriber channel
  ssInodes,    \* file system: the content of every file created so far
  ssTmp,       \* file system: the file at filePath + ".tmp" (0: no such file)
  ssFinal,     \* file system: the file at filePath (0: no such file)
  ssPc,        \* per calling goroutine: where it is inside its call
  ssData,      \* per calling goroutine: the bytes saveToFile marshalled
  ssFd,        \* per calling goroutine: the file os.WriteFile has open
  ssMsg,       \* per calling goroutine: the StateUpdate it will broadcast
  ssView,      \* what a reader got from GetState / GetAllStates and still holds
  ssApplied,   \* history: per record, the frames dispatched to it, in order
  ssTaken,     \* history: the snapshots saveToFile has marshalled
  ssSeen,      \* history: per subscriber, the updates it took from its channel, in order
  ssOps        \* history: the number of mutating calls so far

ssVars == <<ssStates, ssRecs, ssTop, ssNest, ssLocked, ssSubs, ssInodes, ssTmp, ssFinal,
            ssPc, ssData, ssFd, ssMsg, ssView, ssApplied, ssTaken, ssOps, ssSeen>>

\* the connection registry (storage.ConnectionManager) and the peer Sessions
\* (handlers.WebSocketHandler, models.Connection), see the section below
VARIABLES
  cmConnections,   \* ConnectionManager.connections: identifier -> Session
  cmSubscribers,   \* the queue of every subscriber channel Subscribe has made
  cmSubIDs,        \* ConnectionManager.subscribers: the channels that are in the map
  cmClosed,        \* per subscriber channel: how often it was closed
  wsFirst,         \* per Session: the first frame HandleConnection read
  wsAuthResp,      \* per Session: every auth_response written to the peer (status, error)
  cmOnline,        \* history: per Session, its online event was broadcast
  wsChans,         \* per Session: Connection.done closed, sendChan closed, and (history)
                   \* whether a command was enqueued after Close
  cmTotals,        \* ConnectionManager totals: connections, authenticated, telemetry, commands
  wsId,            \* per Session: Connection.Identifier ("" before the handshake)
  wsAuth,          \* per Session: Connection.Authenticated
  wsPc,            \* per Session: where HandleConnection (the reader task) is
  wsWriter,        \* per Session: where messageSender is
  wsKeeper,        \* per Session: where keepaliveSender is
  wsDone,          \* per Session: the done channel is closed
  wsSendChan,      \* per Session: Connection.sendChan, the frames queued for the writer
  wsWriteMu,       \* per Session: the task holding Connection.WriteMu (None: free)
  wsNet,           \* per Session: the transport: closed by the server, read side / write side broken
  wsStats,         \* per Session: Connection counters: telemetry received, commands sent
  wsInWrite,       \* per Session: the tasks that are inside WriteMessage right now
  wsWire,          \* history: per Session, who wrote each frame that reached the transport
  wsWriteFailed,   \* history: per Session, messageSender saw a write error
  cmRolled,        \* history: per Session, how often its counters were added to the totals
  cmOffline,       \* history: per Session, its teardown published an offline event
  cmSeen,          \* history: per subscriber, the events it received, in order
  cmEarly,         \* history: per subscriber, it subscribed before any Session was added
  wsLastCmd,       \* history: the outcome of the last SendCommand
  wsBudget         \* history: peer frames, commands, keeper ticks and transport faults so far

cmVars == <<cmConnections, cmSubscribers, cmSubIDs, cmClosed, wsChans, wsFirst, wsAuthResp, cmOnline, cmTotals, wsId, wsAuth, wsPc, wsWriter, wsKeeper, wsDone,
            wsSendChan, wsWriteMu, wsNet, wsStats, wsInWrite, wsWire, wsWriteFailed,
            cmRolled, cmOffline, cmSeen, cmEarly, wsLastCmd, wsBudget>>

\* the parked command responses (storage.ResponseStore), see the section below
VARIABLES
  rsResponses,   \* ResponseStore.responses: request id -> record
  rsNow,         \* the clock (time.Now()), in half microseconds
  rsIssued,      \* history: the request ids SendCommand has returned
  rsSent,        \* history: the successful SendCommand calls in order: request id and peer
  rsLast,        \* history: per request id, the last response frame a reader dispatched
  rsStored       \* history: the number of response frames dispatched so far

rsVars == <<rsResponses, rsNow, rsIssued, rsSent, rsLast, rsStored>>

\* the observer session (handlers.WebUIHandler), see the section below
VARIABLES
  obPc,           \* where HandleWebConnection is
  obChan,         \* per broadcaster: the subscriber channel it reads (0: none yet)
  obTodo,         \* what sendInitialStates / sendInitialEvents have still to send
  obSnap,         \* history: what GetAllStates and GetAllEvents returned to the handler
  obTask,         \* per broadcaster: where it is, and the message it is writing
  obDone,         \* the done channel is closed
  obNet,          \* the transport: closed by the server, read side / write side working
  obWire,         \* history: the messages written to the transport, in order
  obWriteFailed   \* history: a write to the transport returned an error

obVars == <<obPc, obChan, obTodo, obSnap, obTask, obDone, obNet, obWire, obWriteFailed>>

\* the process (main), see the section below
VARIABLES
  shPhase   \* "running", "shutdown" once server.Shutdown was called, "stopped" once main returned

shVars == <<shPhase>>

\* what the reader and the keeper of a peer Session keep (models.Connection,
\* handlers.WebSocketHandler), see the section on the reader below
VARIABLES
  wsLastSeen,     \* per Session: Connection.LastSeen, a reading of the clock rsNow
  wsIdleTimeout,  \* WebSocketHandler.idleTimeout, in clock ticks (0: disabled)
  wsRateLimit,    \* WebSocketHandler.messageRateLimit, frames per second (0: unlimited)
  wsTicker,       \* per Session: the ticks waiting in the rate limiter's channel
  wsTokens,       \* history: per Session, the ticks put into that channel and taken from it
  wsHeld,         \* per Session: the frame ReadMessage returned that is not dealt with yet
  wsCall,         \* per Session: the store call the reader is in, and the store calls before it
  wsRead,         \* history: per Session, the frames ReadMessage returned, in order
  wsDispatched,   \* history: per Session, the frames that reached the dispatch, in order
  wsMsgs          \* per Session: Connection.MessagesReceived

rxButLastSeen == <<wsIdleTimeout, wsRateLimit, wsTicker, wsTokens, wsHeld, wsCall, wsRead,
                   wsDispatched, wsMsgs>>

rxVars == <<wsLastSeen, rxButLastSeen>>

vars == <<esVars, ssVars, cmVars, rsVars, obVars, shVars, rxVars>>

\* what the actions of one subsystem leave alone
esOthers == <<ssVars, cmVars, rsVars, obVars, shVars, rxVars>>
ssOthers == <<esVars, cmVars, rsVars, obVars, shVars, rxVars>>
cmOthers == <<esVars, ssVars, rsVars, obVars, shVars, rxVars>>
rsOthers == <<esVars, ssVars, cmVars, obVars, shVars, rxVars>>

(***************************************************************************)
(* Event log (storage.EventStore)                                          *)
(***************************************************************************)

\* goroutines that call into the event log concurrently (Session readers, REST handlers)
EventTasks == {"t1", "t2"}
EventNames == {"boot"}
\* instants per second on the clock of the event timestamps
InstantsPerSecond == 2
\* the timestamps events carry: two instants of second 1
Timestamps == {2, 3}
\* capacity of a subscriber channel (make(chan *Event, 100)), scaled down
EventSubCap == 1

\* AddEvent: timestamp.Format("20060102150405") + "-" + timestamp.Format("000000000").
\* The second layout has no decimal point before its zeros, so it is not a
\* fractional-second field and prints as the nine characters it is: the id
\* is the timestamp to the second
EventID(ts) == ts \div InstantsPerSecond

\* the ids callers of DeleteEvent pass: the id of second 1 and one that no
\* event has
EventIDs == {EventID(ts) : ts \in Timestamps} \cup {EventID(0)}

NewEvent(p, name, ts) == [ID |-> EventID(ts), ScooterID |-> p, Event |-> name, Timestamp |-> ts]

InitEvents ==
  /\ esEvents = EmptyMap
  /\ esFile = <<>>
  /\ esSubs = <<>>
  /\ esPc = [t \in EventTasks |-> "idle"]
  /\ esArg = [t \in EventTasks |-> None]
  /\ esLog = [p \in Peers |-> <<>>]
  /\ esDeleted = [p \in Peers |-> FALSE]
  /\ esJust = <<>>

\* AddToList with the new event put at the end of the list
AddToList_Appends(events, p, ev) ==
  IF p \notin DOMAIN events THEN <<ev>>
  ELSE FirstN(events[p] \o <<ev>>, MaxPerScooter)

\* the list AddEvent leaves for a peer: prepend, then trim to the cap; the
\* first event of a peer is stored without the trim
AddToList(events, p, ev) ==
  IF p \notin DOMAIN events THEN <<ev>>
  ELSE FirstN(<<ev>> \o events[p], MaxPerScooter)

\* AddEvent, first part: build the event and store it under the write lock
ES_AddEvent(t, p, name, ts) ==
  /\ esPc[t] = "idle"
  /\ Len(esLog["p1"]) + Len(esLog["p2"]) < MaxAppends
  /\ LET ev == NewEvent(p, name, ts) IN
       /\ esEvents' = MapSet(esEvents, p, AddToList(esEvents, p, ev))
       /\ esArg' = [esArg EXCEPT ![t] = ev]
       /\ esLog' = [esLog EXCEPT ![p] = Append(@, ev)]
       /\ esJust' = <<p, ev>>
  /\ esPc' = [esPc EXCEPT ![t] = "append"]
  /\ UNCHANGED <<esFile, esSubs, esDeleted>>
  /\ UNCHANGED esOthers

\* AddEvent, second part: appendToFile writes one line at the end of the file
ES_appendToFile(t) ==
  /\ esPc[t] = "append"
  /\ esFile' = Append(esFile, esArg[t])
  /\ esPc' = [esPc EXCEPT ![t] = "broadcast"]
  /\ UNCHANGED <<esEvents, esSubs, esArg, esLog, esDeleted, esJust>>
  /\ UNCHANGED esOthers

\* a non-blocking send on every subscriber channel: dropped where the queue is full
Fanout(subs, msg, cap) ==
  [i \in DOMAIN subs |-> IF Len(subs[i]) < cap THEN Append(subs[i], msg) ELSE subs[i]]

\* AddEvent, last part: broadcast the event to the subscribers
ES_broadcast(t) ==
  /\ esPc[t] = "broadcast"
  /\ esSubs' = Fanout(esSubs, esArg[t], EventSubCap)
  /\ esPc' = [esPc EXCEPT ![t] = "idle"]
  /\ esArg' = [esArg EXCEPT ![t] = None]
  /\ UNCHANGED <<esEvents, esFile, esLog, esDeleted, esJust>>
  /\ UNCHANGED esOthers

\* the file rewriteFile leaves: every peer's list oldest first (the order of
\* the peers is the map's iteration order; one order is written here, and
\* loadFromFile does not depend on it)
RECURSIVE FileOf(_, _)
FileOf(events, ps) ==
  IF ps = {} THEN <<>>
  ELSE LET p == CHOOSE x \in ps : TRUE IN
         (IF p \in DOMAIN events THEN Reverse(events[p]) ELSE <<>>) \o FileOf(events, ps \ {p})

rewriteFile(events) == FileOf(events, Peers)

\* index of the first event of list whose ID is id, 0 if there is none
FirstWithID(list, id) ==
  IF \E i \in 1..Len(list) : list[i].ID = id
  THEN CHOOSE i \in 1..Len(list) : list[i].ID = id /\ \A j \in 1..(i - 1) : list[j].ID # id
  ELSE 0

\* DeleteEvent(p, id): the map it leaves and the value it returns
DeleteEvent(events, p, id) ==
  IF p \in DOMAIN events /\ FirstWithID(events[p], id) # 0
  THEN [events |-> [events EXCEPT ![p] = RemoveAt(@, FirstWithID(@, id))], ok |-> TRUE]
  ELSE [events |-> events, ok |-> FALSE]

\* ClearEvents(p): the map it leaves
ClearEvents(events, p) == MapDelete(events, p)

\* DeleteEvent, all of it under the write lock: remove the first event with
\* that id and rewrite the file; nothing changes when there is none
ES_DeleteEvent(p, id) ==
  /\ DeleteEvent(esEvents, p, id).ok
  /\ esEvents' = DeleteEvent(esEvents, p, id).events
  /\ esFile' = rewriteFile(esEvents')
  /\ esDeleted' = [esDeleted EXCEPT ![p] = TRUE]
  /\ esJust' = <<>>
  /\ UNCHANGED <<esSubs, esPc, esArg, esLog>>
  /\ UNCHANGED esOthers

\* ClearEvents, all of it under the write lock
ES_ClearEvents(p) ==
  /\ esEvents' = ClearEvents(esEvents, p)
  /\ esFile' = rewriteFile(esEvents')
  /\ esDeleted' = [esDeleted EXCEPT ![p] = TRUE]
  /\ esJust' = <<>>
  /\ UNCHANGED <<esSubs, esPc, esArg, esLog>>
  /\ UNCHANGED esOthers

\* Subscribe appends a new channel
ES_Subscribe ==
  /\ Len(esSubs) < MaxEventSubs
  /\ esSubs' = Append(esSubs, <<>>)
  /\ UNCHANGED <<esEvents, esFile, esPc, esArg, esLog, esDeleted, esJust>>
  /\ UNCHANGED esOthers

\* a subscriber takes the next event from its channel
ES_Receive(i) ==
  /\ i \in DOMAIN esSubs
  /\ esSubs[i] # <<>>
  /\ esSubs' = [esSubs EXCEPT ![i] = Tail(@)]
  /\ UNCHANGED <<esEvents, esFile, esPc, esArg, esLog, esDeleted, esJust>>
  /\ UNCHANGED esOthers

\* GetEvents(scooterID, limit)
GetEvents(events, p, limit) ==
  IF p \notin DOMAIN events THEN <<>>
  ELSE IF limit > 0 /\ limit < Len(events[p]) THEN SubSeq(events[p], 1, limit)
       ELSE events[p]

\* loadFromFile: the lines grouped per peer in file order, each list reversed
\* to newest first and trimmed to the cap
loadFromFile(file) ==
  LET present == {p \in Peers : FilterSeq(file, p) # <<>>} IN
    [p \in present |-> FirstN(Reverse(FilterSeq(file, p)), MaxPerScooter)]

NextEvents ==
  \/ \E t \in EventTasks, p \in Peers, name \in EventNames, ts \in Timestamps : ES_AddEvent(t, p, name, ts)
  \/ \E t \in EventTasks : ES_appendToFile(t)
  \/ \E t \in EventTasks : ES_broadcast(t)
  \/ \E p \in Peers, id \in EventIDs : ES_DeleteEvent(p, id)
  \/ \E p \in Peers : ES_ClearEvents(p)
  \/ ES_Subscribe
  \/ \E i \in 1..MaxEventSubs : ES_Receive(i)

(***************************************************************************)
(* State store (storage.StateStore)                                        *)
(*                                                                         *)
(* Go maps are reference values: UpdateState stores the caller's map,      *)
(* UpdateChanges assigns into the stored maps in place, GetState copies    *)
(* the top-level map only and GetAllStates copies the map of record        *)
(* pointers only.  The model therefore keeps the maps on a heap: ssTop     *)
(* holds the top-level maps (section -> scalar or reference to a nested    *)
(* map), ssNest the nested maps (field -> scalar), ssRecs the ScooterState *)
(* records.  Address 0 is nil.                                             *)
(***************************************************************************)

\* goroutines that call into the state store concurrently (Session handlers)
StateTasks == {"u1", "u2"}
Versions == {"v1", "v2"}
\* capacity of a subscriber channel (make(chan StateUpdate, 100)), scaled down
StateSubCap == 1

SectionOrder == <<"battery", "vehicle">>
PeerOrder == <<"p1", "p2">>

\* a scalar JSON value, as a top-level value of a decoded map
Scalar(n) == [x \in {"#"} |-> n]
IsScalar(v) == DOMAIN v = {"#"}

\* the payloads peers send: a section is a nested map or a scalar.  Between
\* them every case of the merge occurs: a map over a map (battery), a map
\* over a scalar and a scalar over a map (vehicle), and a new key
DataA == [k \in {"battery", "vehicle"} |->
            IF k = "battery" THEN [f \in {"charge", "voltage"} |-> 1] ELSE Scalar(1)]
DataB == [k \in {"battery", "vehicle"} |-> [f \in {"charge"} |-> 2]]

\* a decoded payload: isNil when the frame carries no data object (a nil Go map)
MapPayloads == {[isNil |-> FALSE, data |-> d] : d \in {DataA, DataB}}
Payloads == MapPayloads \cup {[isNil |-> TRUE, data |-> EmptyMap]}

\* the task names are interchangeable: a call starts on the first free one
FreeTask(pc, t) == pc[t] = "idle" /\ (t = "u2" => pc["u1"] # "idle")

IndexOf(seq, x) == CHOOSE i \in 1..Len(seq) : seq[i] = x

\* json.Unmarshal of a payload: a fresh top-level map and a fresh map for
\* every nested object; the result names the new heaps and the address
Decode(top, nest, data) ==
  LET mapKeys == SelectSeq(SectionOrder, LAMBDA k : k \in DOMAIN data /\ ~IsScalar(data[k]))
      obj == [k \in DOMAIN data |->
                IF IsScalar(data[k]) THEN [kind |-> "val", v |-> data[k]["#"]]
                ELSE [kind |-> "ref", v |-> Len(nest) + IndexOf(mapKeys, k)]]
  IN [top |-> Append(top, obj),
      nest |-> nest \o [i \in 1..Len(mapKeys) |-> data[mapKeys[i]]],
      addr |-> Len(top) + 1]

\* the JSON value reachable from a top-level map object
DeepObj(obj, nest) ==
  [k \in DOMAIN obj |-> IF obj[k].kind = "val" THEN Scalar(obj[k].v) ELSE nest[obj[k].v]]

\* the JSON value of the map at an address (nil reads as the empty map)
Deep(top, nest, addr) == IF addr = 0 THEN EmptyMap ELSE DeepObj(top[addr], nest)

NoMsg == [ScooterID |-> "", State |-> 0, Type |-> "none"]

NoView == [kind |-> "none", rec |-> 0, copy |-> EmptyMap, recs |-> EmptyMap]

InitState ==
  /\ ssStates = EmptyMap
  /\ ssRecs = <<>>
  /\ ssTop = <<>>
  /\ ssNest = <<>>
  /\ ssLocked = FALSE
  /\ ssSubs = <<>>
  /\ ssInodes = <<>>
  /\ ssTmp = 0
  /\ ssFinal = 0
  /\ ssPc = [t \in StateTasks |-> "idle"]
  /\ ssData = [t \in StateTasks |-> <<>>]
  /\ ssFd = [t \in StateTasks |-> 0]
  /\ ssMsg = [t \in StateTasks |-> NoMsg]
  /\ ssView = NoView
  /\ ssApplied = <<>>
  /\ ssTaken = {}
  /\ ssOps = 0
  /\ ssSeen = <<>>

\* the record of a peer, created when the peer has none:
\* &ScooterState{ScooterID: id, State: make(map[string]any)}; LastChangeAt is
\* the zero time, and the instants of the store's clock are its calls
\* recs, top: the heaps after the creation; idx: the record of the peer
Ensure(states, recs, top, p) ==
  IF p \in DOMAIN states
  THEN [states |-> states, recs |-> recs, top |-> top, idx |-> states[p]]
  ELSE [states |-> MapSet(states, p, Len(recs) + 1),
        recs |-> Append(recs, [State |-> Len(top) + 1, Version |-> "", LastChangeAt |-> 0]),
        top |-> Append(top, EmptyMap),
        idx |-> Len(recs) + 1]

\* the history of dispatched frames, with a frame added for record idx
Dispatched(applied, recs, idx, frame) ==
  LET a == IF idx > Len(applied) THEN applied \o [i \in 1..(Len(recs) - Len(applied)) |-> <<>>]
           ELSE applied
  IN [a EXCEPT ![idx] = Append(@, frame)]

\* UpdateState under the write lock: the record's State becomes the caller's map
SS_UpdateState(t, p, pl) ==
  /\ FreeTask(ssPc, t)
  /\ ~ssLocked
  /\ ssOps < MaxStoreOps
  /\ LET e == Ensure(ssStates, ssRecs, ssTop, p)
         d == IF pl.isNil THEN [top |-> e.top, nest |-> ssNest, addr |-> 0]
              ELSE Decode(e.top, ssNest, pl.data)
     IN /\ ssStates' = e.states
        /\ ssRecs' = [e.recs EXCEPT ![e.idx].State = d.addr, ![e.idx].LastChangeAt = ssOps + 1]
        /\ ssTop' = d.top
        /\ ssNest' = d.nest
        /\ ssMsg' = [ssMsg EXCEPT ![t] = [ScooterID |-> p, State |-> d.addr, Type |-> "full"]]
        /\ ssApplied' = Dispatched(ssApplied, e.recs, e.idx, [type |-> "state", pl |-> pl])
  /\ ssPc' = [ssPc EXCEPT ![t] = "snapshot"]
  /\ ssOps' = ssOps + 1
  /\ UNCHANGED <<ssLocked, ssSubs, ssInodes, ssTmp, ssFinal, ssData, ssFd, ssView, ssTaken, ssSeen>>
  /\ UNCHANGED ssOthers

\* the stored top-level map after the loop of UpdateChanges: a scalar or a
\* map over a non-map is assigned; a map over a stored map leaves the entry
MergedTop(old, frameObj, data) ==
  [k \in DOMAIN old \cup DOMAIN data |->
     IF k \notin DOMAIN data THEN old[k]
     ELSE IF ~IsScalar(data[k]) /\ k \in DOMAIN old /\ old[k].kind = "ref" THEN old[k]
          ELSE frameObj[k]]

\* the nested maps after the loop of UpdateChanges: a map over a stored map
\* assigns its fields into the stored map, in place
MergedNest(old, nest, data) ==
  LET hit(i, k) == /\ k \in DOMAIN data /\ ~IsScalar(data[k])
                   /\ k \in DOMAIN old /\ old[k].kind = "ref" /\ old[k].v = i
  IN [i \in DOMAIN nest |->
        IF \E k \in DOMAIN data : hit(i, k)
        THEN LET k == CHOOSE k \in DOMAIN data : hit(i, k) IN
               [f \in DOMAIN nest[i] \cup DOMAIN data[k] |->
                  IF f \in DOMAIN data[k] THEN data[k][f] ELSE nest[i][f]]
        ELSE nest[i]]

\* UpdateChanges under the write lock.  Assigning into a nil State map
\* panics: the goroutine leaves the call with the lock held (the unlock is
\* not deferred) and the HTTP server recovers the panic.
SS_UpdateChanges(t, p, pl) ==
  /\ FreeTask(ssPc, t)
  /\ ~ssLocked
  /\ ssOps < MaxStoreOps
  /\ ssOps' = ssOps + 1
  /\ LET e == Ensure(ssStates, ssRecs, ssTop, p)
         st == e.recs[e.idx].State
         d == IF pl.isNil THEN [top |-> e.top, nest |-> ssNest, addr |-> 0]
              ELSE Decode(e.top, ssNest, pl.data)
     IN /\ ssApplied' = Dispatched(ssApplied, e.recs, e.idx, [type |-> "change", pl |-> pl])
        /\ IF st = 0 /\ DOMAIN pl.data # {}
           THEN /\ ssLocked' = TRUE
                /\ ssPc' = [ssPc EXCEPT ![t] = "dead"]
                /\ UNCHANGED <<ssStates, ssRecs, ssTop, ssNest, ssMsg>>
           ELSE /\ ssStates' = e.states
                /\ ssRecs' = [e.recs EXCEPT ![e.idx].LastChangeAt = ssOps + 1]
                /\ ssTop' = IF st = 0 \/ pl.isNil THEN d.top
                            ELSE [d.top EXCEPT ![st] = MergedTop(d.top[st], d.top[d.addr], pl.data)]
                /\ ssNest' = IF st = 0 \/ pl.isNil THEN d.nest
                             ELSE MergedNest(d.top[st], d.nest, pl.data)
                /\ ssMsg' = [ssMsg EXCEPT ![t] = [ScooterID |-> p, State |-> d.addr, Type |-> "delta"]]
                /\ ssPc' = [ssPc EXCEPT ![t] = "snapshot"]
                /\ UNCHANGED ssLocked
  /\ UNCHANGED <<ssSubs, ssInodes, ssTmp, ssFinal, ssData, ssFd, ssView, ssTaken, ssSeen>>
  /\ UNCHANGED ssOthers

\* state.Version = version: nothing else of the record that the model holds
\* is assigned
WithVersion_Fresh(rec, v) == [State |-> 0, Version |-> v, LastChangeAt |-> 0]
WithVersion(rec, v) == [rec EXCEPT !.Version = v]

\* SetVersion under the write lock; the save runs in a goroutine of its own
\* (go ss.saveToFile()), which this task goes on to be
SS_SetVersion(t, p, v) ==
  /\ FreeTask(ssPc, t)
  /\ ~ssLocked
  /\ ssOps < MaxStoreOps
  /\ ssOps' = ssOps + 1
  /\ LET e == Ensure(ssStates, ssRecs, ssTop, p) IN
       /\ ssStates' = e.states
       /\ ssRecs' = [e.recs EXCEPT ![e.idx] = WithVersion(@, v)]
       /\ ssTop' = e.top
       /\ ssApplied' = IF e.idx > Len(ssApplied) THEN Append(ssApplied, <<>>) ELSE ssApplied
  /\ ssMsg' = [ssMsg EXCEPT ![t] = NoMsg]
  /\ ssPc' = [ssPc EXCEPT ![t] = "snapshot"]
  /\ UNCHANGED <<ssNest, ssLocked, ssSubs, ssInodes, ssTmp, ssFinal, ssData, ssFd, ssView, ssTaken, ssSeen>>
  /\ UNCHANGED ssOthers

\* RemoveState under the write lock
SS_RemoveState(t, p) ==
  /\ FreeTask(ssPc, t)
  /\ ~ssLocked
  /\ ssOps < MaxStoreOps
  /\ ssOps' = ssOps + 1
  /\ ssStates' = MapDelete(ssStates, p)
  /\ ssMsg' = [ssMsg EXCEPT ![t] = NoMsg]
  /\ ssPc' = [ssPc EXCEPT ![t] = "snapshot"]
  /\ UNCHANGED <<ssRecs, ssTop, ssNest, ssLocked, ssSubs, ssInodes, ssTmp, ssFinal, ssData, ssFd,
                 ssView, ssApplied, ssTaken, ssSeen>>
  /\ UNCHANGED ssOthers

\* what json.MarshalIndent(ss.states) captures: every record with the JSON
\* value of its State (a nil map is written as null)
Marshal(states, recs, top, nest) ==
  [p \in DOMAIN states |->
     [State |-> Deep(top, nest, recs[states[p]].State),
      isNil |-> recs[states[p]].State = 0,
      Version |-> recs[states[p]].Version]]

NoRec == [State |-> EmptyMap, isNil |-> FALSE, Version |-> ""]

\* the bytes of a marshalled snapshot, as tokens: an opening brace, one entry
\* per peer in key order, a closing brace
Serialize(snap) ==
  LET keys == SelectSeq(PeerOrder, LAMBDA p : p \in DOMAIN snap) IN
    <<[tok |-> "open", peer |-> "", rec |-> NoRec]>>
      \o [i \in 1..Len(keys) |-> [tok |-> "entry", peer |-> keys[i], rec |-> snap[keys[i]]]]
      \o <<[tok |-> "close", peer |-> "", rec |-> NoRec]>>

\* saveToFile, first part: marshal the states map under the read lock
SS_saveToFile_marshal(t) ==
  /\ ssPc[t] = "snapshot"
  /\ ~ssLocked
  /\ LET snap == Marshal(ssStates, ssRecs, ssTop, ssNest) IN
       /\ ssData' = [ssData EXCEPT ![t] = Serialize(snap)]
       /\ ssTaken' = ssTaken \cup {snap}
  /\ ssPc' = [ssPc EXCEPT ![t] = "open"]
  /\ UNCHANGED <<ssStates, ssRecs, ssTop, ssNest, ssLocked, ssSubs, ssInodes, ssTmp, ssFinal,
                 ssFd, ssMsg, ssView, ssApplied, ssOps, ssSeen>>
  /\ UNCHANGED ssOthers

\* os.WriteFile(tmpPath), the open: O_WRONLY|O_CREATE|O_TRUNC creates the
\* file or empties the one that is there
SS_saveToFile_open(t) ==
  /\ ssPc[t] = "open"
  /\ IF ssTmp = 0
     THEN /\ ssInodes' = Append(ssInodes, <<>>)
          /\ ssTmp' = Len(ssInodes) + 1
     ELSE /\ ssInodes' = [ssInodes EXCEPT ![ssTmp] = <<>>]
          /\ UNCHANGED ssTmp
  /\ ssFd' = [ssFd EXCEPT ![t] = ssTmp']
  /\ ssPc' = [ssPc EXCEPT ![t] = "write"]
  /\ UNCHANGED <<ssStates, ssRecs, ssTop, ssNest, ssLocked, ssSubs, ssFinal, ssData, ssMsg,
                 ssView, ssApplied, ssTaken, ssOps, ssSeen>>
  /\ UNCHANGED ssOthers

\* a write of data at offset 0 of a file: what lay beyond its length stays
WriteAt0(content, data) == data \o SubSeq(content, Len(data) + 1, Len(content))

\* os.WriteFile(tmpPath), the write and the close
SS_saveToFile_write(t) ==
  /\ ssPc[t] = "write"
  /\ ssInodes' = [ssInodes EXCEPT ![ssFd[t]] = WriteAt0(@, ssData[t])]
  /\ ssFd' = [ssFd EXCEPT ![t] = 0]
  /\ ssPc' = [ssPc EXCEPT ![t] = "rename"]
  /\ UNCHANGED <<ssStates, ssRecs, ssTop, ssNest, ssLocked, ssSubs, ssTmp, ssFinal, ssData,
                 ssMsg, ssView, ssApplied, ssTaken, ssOps, ssSeen>>
  /\ UNCHANGED ssOthers

\* os.Rename(tmpPath, filePath): fails (and is logged) when another save has
\* renamed the temporary file away
SS_saveToFile_rename(t) ==
  /\ ssPc[t] = "rename"
  /\ IF ssTmp = 0 THEN UNCHANGED <<ssTmp, ssFinal>>
     ELSE ssFinal' = ssTmp /\ ssTmp' = 0
  /\ ssData' = [ssData EXCEPT ![t] = <<>>]
  /\ ssPc' = [ssPc EXCEPT ![t] = IF ssMsg[t].Type = "none" THEN "idle" ELSE "broadcast"]
  /\ UNCHANGED <<ssStates, ssRecs, ssTop, ssNest, ssLocked, ssSubs, ssInodes, ssFd, ssMsg,
                 ssView, ssApplied, ssTaken, ssOps, ssSeen>>
  /\ UNCHANGED ssOthers

\* broadcast of the StateUpdate under the read lock, after the save
SS_broadcast(t) ==
  /\ ssPc[t] = "broadcast"
  /\ ~ssLocked
  /\ ssSubs' = Fanout(ssSubs, ssMsg[t], StateSubCap)
  /\ ssMsg' = [ssMsg EXCEPT ![t] = NoMsg]
  /\ ssPc' = [ssPc EXCEPT ![t] = "idle"]
  /\ UNCHANGED <<ssStates, ssRecs, ssTop, ssNest, ssLocked, ssInodes, ssTmp, ssFinal, ssData,
                 ssFd, ssView, ssApplied, ssTaken, ssOps, ssSeen>>
  /\ UNCHANGED ssOthers

\* Subscribe appends a new channel
SS_Subscribe ==
  /\ ~ssLocked
  /\ Len(ssSubs) < MaxStateSubs
  /\ ssSubs' = Append(ssSubs, <<>>)
  /\ ssSeen' = Append(ssSeen, <<>>)
  /\ UNCHANGED <<ssStates, ssRecs, ssTop, ssNest, ssLocked, ssInodes, ssTmp, ssFinal, ssPc,
                 ssData, ssFd, ssMsg, ssView, ssApplied, ssTaken, ssOps>>
  /\ UNCHANGED ssOthers

\* a subscriber takes the next update from its channel (the receive of
\* broadcastUpdates)
SS_Receive(i) ==
  /\ i \in DOMAIN ssSubs
  /\ ssSubs[i] # <<>>
  /\ ssSubs' = [ssSubs EXCEPT ![i] = Tail(@)]
  /\ ssSeen' = [ssSeen EXCEPT ![i] = Append(@, Head(ssSubs[i]))]
  /\ UNCHANGED <<ssStates, ssRecs, ssTop, ssNest, ssLocked, ssInodes, ssTmp, ssFinal, ssPc,
                 ssData, ssFd, ssMsg, ssView, ssApplied, ssTaken, ssOps>>
  /\ UNCHANGED ssOthers

\* GetState under the read lock: a new record with a copy of the top-level map
SS_GetState(p) ==
  /\ ~ssLocked
  /\ p \in DOMAIN ssStates
  /\ LET addr == ssRecs[ssStates[p]].State IN
       ssView' = [kind |-> "one", rec |-> ssStates[p],
                  copy |-> IF addr = 0 THEN EmptyMap ELSE ssTop[addr],
                  recs |-> EmptyMap]
  /\ UNCHANGED <<ssStates, ssRecs, ssTop, ssNest, ssLocked, ssSubs, ssInodes, ssTmp, ssFinal,
                 ssPc, ssData, ssFd, ssMsg, ssApplied, ssTaken, ssOps, ssSeen>>
  /\ UNCHANGED ssOthers

\* GetAllStates under the read lock: a new map holding the same record pointers
SS_GetAllStates ==
  /\ ~ssLocked
  /\ ssView' = [kind |-> "all", rec |-> 0, copy |-> EmptyMap, recs |-> ssStates]
  /\ UNCHANGED <<ssStates, ssRecs, ssTop, ssNest, ssLocked, ssSubs, ssInodes, ssTmp, ssFinal,
                 ssPc, ssData, ssFd, ssMsg, ssApplied, ssTaken, ssOps, ssSeen>>
  /\ UNCHANGED ssOthers

\* the reader is done with what it got
SS_Release ==
  /\ ssView.kind # "none"
  /\ ssView' = NoView
  /\ UNCHANGED <<ssStates, ssRecs, ssTop, ssNest, ssLocked, ssSubs, ssInodes, ssTmp, ssFinal,
                 ssPc, ssData, ssFd, ssMsg, ssApplied, ssTaken, ssOps, ssSeen>>
  /\ UNCHANGED ssOthers

\* the holder of a GetState result deletes a key of the result's State map:
\* the map is the copy GetState made
SS_Caller_deleteKey(k) ==
  /\ ssView.kind = "one"
  /\ ssOps < MaxStoreOps
  /\ k \in DOMAIN ssView.copy
  /\ ssView' = [ssView EXCEPT !.copy = MapDelete(@, k)]
  /\ ssOps' = ssOps + 1
  /\ UNCHANGED <<ssStates, ssRecs, ssTop, ssNest, ssLocked, ssSubs, ssInodes, ssTmp, ssFinal,
                 ssPc, ssData, ssFd, ssMsg, ssApplied, ssTaken, ssSeen>>
  /\ UNCHANGED ssOthers

\* the holder of a GetState result deletes a field of a nested map it reaches
\* through the result: stateCopy.State[k] = v copied the reference
SS_Caller_deleteField(k, f) ==
  /\ ssView.kind = "one"
  /\ k \in DOMAIN ssView.copy
  /\ ssView.copy[k].kind = "ref"
  /\ f \in DOMAIN ssNest[ssView.copy[k].v]
  /\ ssOps < MaxStoreOps
  /\ ssNest' = [ssNest EXCEPT ![ssView.copy[k].v] = MapDelete(@, f)]
  /\ ssOps' = ssOps + 1
  /\ UNCHANGED <<ssStates, ssRecs, ssTop, ssLocked, ssSubs, ssInodes, ssTmp, ssFinal,
                 ssPc, ssData, ssFd, ssMsg, ssView, ssApplied, ssTaken, ssSeen>>
  /\ UNCHANGED ssOthers

\* the holder of a GetAllStates result assigns the Version field of a record
\* of the result: statesCopy[id] = state copied the pointer
SS_Caller_setVersion(p, v) ==
  /\ ssView.kind = "all"
  /\ p \in DOMAIN ssView.recs
  /\ ssRecs[ssView.recs[p]].Version # v
  /\ ssOps < MaxStoreOps
  /\ ssRecs' = [ssRecs EXCEPT ![ssView.recs[p]].Version = v]
  /\ ssOps' = ssOps + 1
  /\ UNCHANGED <<ssStates, ssTop, ssNest, ssLocked, ssSubs, ssInodes, ssTmp, ssFinal,
                 ssPc, ssData, ssFd, ssMsg, ssView, ssApplied, ssTaken, ssSeen>>
  /\ UNCHANGED ssOthers

\* what callers do to the records they were handed
NextStateCallers ==
  \/ \E k \in {"battery", "vehicle"} : SS_Caller_deleteKey(k)
  \/ \E k \in {"battery", "vehicle"}, f \in {"charge", "voltage"} : SS_Caller_deleteField(k, f)
  \/ \E p \in Peers, v \in Versions : SS_Caller_setVersion(p, v)

\* what the holder of a GetState result reads through it now
ViewOne(view, nest) == DeepObj(view.copy, nest)

\* what the holder of a GetAllStates result reads for peer p through it now
ViewAll(view, p, recs, top, nest) == Deep(top, nest, recs[view.recs[p]].State)

\* json.Unmarshal accepts the bytes: one object, closed, nothing after it
ValidJSON(content) ==
  /\ Len(content) >= 2
  /\ content[1].tok = "open"
  /\ content[Len(content)].tok = "close"
  /\ \A i \in 2..(Len(content) - 1) : content[i].tok = "entry"

\* loadFromFile of a fresh StateStore: no file, or bytes that do not parse,
\* leave the states map empty
SS_loadFromFile(inodes, final) ==
  IF final = 0 THEN EmptyMap
  ELSE IF ~ValidJSON(inodes[final]) THEN EmptyMap
       ELSE LET c == inodes[final] IN
              [p \in {c[i].peer : i \in 2..(Len(c) - 1)} |->
                 (CHOOSE e \in {c[i] : i \in 2..(Len(c) - 1)} : e.peer = p).rec]

\* the calls of the Session handlers, with the saves and broadcasts they start
StateCalls(payloads) ==
  \/ \E t \in StateTasks, p \in Peers, pl \in payloads : SS_UpdateState(t, p, pl)
  \/ \E t \in StateTasks, p \in Peers, pl \in payloads : SS_UpdateChanges(t, p, pl)
  \/ \E t \in StateTasks, p \in Peers, v \in Versions : SS_SetVersion(t, p, v)
  \/ \E t \in StateTasks, p \in Peers : SS_RemoveState(t, p)
  \/ \E t \in StateTasks : SS_saveToFile_marshal(t)
  \/ \E t \in StateTasks : SS_saveToFile_open(t)
  \/ \E t \in StateTasks : SS_saveToFile_write(t)
  \/ \E t \in StateTasks : SS_saveToFile_rename(t)
  \/ \E t \in StateTasks : SS_broadcast(t)

\* the subscribers (observer sessions)
NextStateSubs ==
  \/ SS_Subscribe
  \/ \E i \in 1..MaxStateSubs : SS_Receive(i)

\* the readers (REST handlers, the observer's initial snapshot)
NextStateReads ==
  \/ \E p \in Peers : SS_GetState(p)
  \/ SS_GetAllStates
  \/ SS_Release

(***************************************************************************)
(* The connection registry and the peer Sessions                           *)
(* (storage.ConnectionManager, handlers.WebSocketHandler,                  *)
(* models.Connection)                                                      *)
(*                                                                         *)
(* A Session has three tasks: HandleConnection, which becomes the reader   *)
(* (wsPc), messageSender (wsWriter) and keepaliveSender (wsKeeper).  What  *)
(* the handler does to the state store and the event log is modelled in    *)
(* their own sections; here those calls only advance the handler.          *)
(***************************************************************************)
Sessions == 1..MaxSessions

\* capacity of a presence subscriber's channel
PresenceCap == 10

NoStats == [telemetry |-> 0, commands |-> 0]

NoCmd == [session |-> 0, ok |-> FALSE, err |-> ""]

PresenceEvent(type, p) == [Type |-> type, Identifier |-> p]

NoFrame == [json |-> FALSE, type |-> "none", fields |-> FALSE, identifier |-> "", token |-> ""]

InitSess ==
  /\ cmConnections = EmptyMap
  /\ cmSubscribers = <<>>
  /\ cmSubIDs = {}
  /\ cmClosed = <<>>
  /\ cmTotals = [connections |-> 0, authenticated |-> 0, telemetry |-> 0, commands |-> 0]
  /\ wsId = [s \in Sessions |-> ""]
  /\ wsAuth = [s \in Sessions |-> FALSE]
  /\ wsPc = [s \in Sessions |-> "new"]
  /\ wsWriter = [s \in Sessions |-> "off"]
  /\ wsKeeper = [s \in Sessions |-> "off"]
  /\ wsDone = [s \in Sessions |-> FALSE]
  /\ wsSendChan = [s \in Sessions |-> <<>>]
  /\ wsWriteMu = [s \in Sessions |-> None]
  /\ wsNet = [s \in Sessions |-> [closed |-> FALSE, rd |-> TRUE, wr |-> TRUE]]
  /\ wsStats = [s \in Sessions |-> NoStats]
  /\ wsInWrite = [s \in Sessions |-> {}]
  /\ wsWire = [s \in Sessions |-> <<>>]
  /\ wsWriteFailed = [s \in Sessions |-> FALSE]
  /\ cmRolled = [s \in Sessions |-> 0]
  /\ cmOffline = [s \in Sessions |-> FALSE]
  /\ cmSeen = <<>>
  /\ cmEarly = <<>>
  /\ wsLastCmd = NoCmd
  /\ wsFirst = [s \in Sessions |-> NoFrame]
  /\ wsAuthResp = [s \in Sessions |-> <<>>]
  /\ cmOnline = [s \in Sessions |-> FALSE]
  /\ wsChans = [s \in Sessions |-> [done |-> FALSE, sendClosed |-> FALSE, sentAfter |-> FALSE]]
  /\ wsBudget = 0

\* a frame of an authenticated peer as the reader sees it: json: it parses as
\* a JSON object; type: its type field; fields: it parses as the message of
\* that type; seq: its place among the frames of its Session
PeerFrame(json, type, fields, seq) ==
  [json |-> json, type |-> type, fields |-> fields, seq |-> seq]

NoPeerFrame == PeerFrame(FALSE, "none", FALSE, 0)

NoCall == [kind |-> "none", at |-> 0]

\* the reader's and the keeper's side of the Sessions: no Connection exists
\* yet; the idle timeout is whatever the configuration says
InitReader(timeouts, rates) ==
  /\ wsLastSeen = [s \in Sessions |-> 0]
  /\ wsIdleTimeout \in timeouts
  /\ wsRateLimit \in rates
  /\ wsTicker = [s \in Sessions |-> 0]
  /\ wsTokens = [s \in Sessions |-> [issued |-> 0, taken |-> 0]]
  /\ wsHeld = [s \in Sessions |-> NoPeerFrame]
  /\ wsCall = [s \in Sessions |-> NoCall]
  /\ wsRead = [s \in Sessions |-> <<>>]
  /\ wsDispatched = [s \in Sessions |-> <<>>]
  /\ wsMsgs = [s \in Sessions |-> 0]

\* the auth directory (config.Auth.Tokens): identifier -> token
Tokens == [p \in Peers |-> IF p = "p1" THEN "t1" ELSE "t2"]

\* the version string Session s reports in its auth frame
Version(s) == IF s = 1 THEN "v1" ELSE "v2"

\* a first frame: json: it parses as a JSON object with a string type; fields:
\* it parses as an AuthMessage
AuthFrame(p, token) ==
  [json |-> TRUE, type |-> "auth", fields |-> TRUE, identifier |-> p, token |-> token]

\* first frames that are refused: not JSON, another kind, an auth frame with a
\* field of the wrong JSON type, an unknown identifier, another peer's token,
\* a token nobody has
FirstFrames ==
  {[json |-> FALSE, type |-> "", fields |-> FALSE, identifier |-> "", token |-> ""],
   [json |-> TRUE, type |-> "state", fields |-> TRUE, identifier |-> "", token |-> ""],
   [json |-> TRUE, type |-> "auth", fields |-> FALSE, identifier |-> "", token |-> ""],
   AuthFrame("p3", "t1"), AuthFrame("p1", "t2"), AuthFrame("p1", "t0")}

\* Authenticator.Authenticate
Authenticate(identifier, token) ==
  IF identifier \notin DOMAIN Tokens THEN "unknown identifier"
  ELSE IF token # Tokens[identifier] THEN "invalid token"
  ELSE "ok"

\* what HandleConnection does with the first frame: "silent" (return without
\* a reply), "error" (sendAuthResponse "error" and return) or "ok"
Handshake(f) ==
  IF ~f.json THEN "silent"
  ELSE IF f.type # "auth" THEN "error"
  ELSE IF ~f.fields THEN "error"
  ELSE IF Authenticate(f.identifier, f.token) # "ok" THEN "error"
  ELSE "ok"

\* protocol.AuthResponse as sendAuthResponse builds it (server_time left out)
AuthResponse(status, errMsg) == [status |-> status, error |-> errMsg]

\* not the server's code: a handler that passes the Authenticator's error on
FailureText_Leaks(err) == err

\* the text HandleConnection sends when Authenticate returns an error
FailureText(err) == "Authentication failed"

\* the error text of the auth_response for a first frame that is refused
ErrorText(f) ==
  IF f.type # "auth" THEN "Expected authentication message"
  ELSE IF ~f.fields THEN "Invalid authentication message format"
  ELSE FailureText(Authenticate(f.identifier, f.token))

\* a write on the transport of s succeeds
CanWrite(s) == ~wsNet[s].closed /\ wsNet[s].wr

\* a read on the transport of s returns a frame rather than an error
CanRead(s) == ~wsNet[s].closed /\ wsNet[s].rd

\* ServerConfig.MaxConnections (max_connections), a limit above 0; nothing in
\* the registry reads it
MaxConnections == 1

\* ConnectionManager.Subscribe: a new channel under the next id (the channel
\* of id k is cmSubscribers[k + 1], so nextSubID is Len(cmSubscribers))
CM_Subscribe ==
  /\ Len(cmSubscribers) < MaxPresenceSubs
  /\ cmSubscribers' = Append(cmSubscribers, <<>>)
  /\ cmSubIDs' = cmSubIDs \cup {Len(cmSubscribers) + 1}
  /\ cmClosed' = Append(cmClosed, 0)
  /\ cmSeen' = Append(cmSeen, <<>>)
  /\ cmEarly' = Append(cmEarly, \A s \in Sessions : wsPc[s] = "new")
  /\ UNCHANGED <<cmConnections, cmTotals, wsId, wsPc, wsWriter, wsKeeper, wsDone, wsSendChan,
                 wsWriteMu, wsNet, wsStats, wsInWrite, wsWire, wsWriteFailed, cmRolled,
                 cmOffline, wsLastCmd, wsBudget>>
  /\ UNCHANGED <<wsAuth, wsChans, wsFirst, wsAuthResp, cmOnline, cmOthers>>

\* not the server's code: an Unsubscribe that closes the channel and leaves it
\* in the map
Unregister_Keeps(ids, i) == ids

\* delete(cm.subscribers, id)
Unregister(ids, i) == ids \ {i}

\* ConnectionManager.Unsubscribe(i - 1): closes the channel and deletes it from
\* the map when the id is in the map, does nothing otherwise
CM_Unsubscribe(i) ==
  /\ IF i \in cmSubIDs
     THEN /\ cmClosed' = [cmClosed EXCEPT ![i] = @ + 1]
          /\ cmSubIDs' = Unregister(cmSubIDs, i)
     ELSE UNCHANGED <<cmClosed, cmSubIDs>>
  /\ UNCHANGED <<cmConnections, cmSubscribers, cmTotals, wsId, wsPc, wsWriter, wsKeeper, wsDone,
                 wsSendChan, wsWriteMu, wsNet, wsStats, wsInWrite, wsWire, wsWriteFailed,
                 cmRolled, cmOffline, cmSeen, cmEarly, wsLastCmd, wsBudget>>
  /\ UNCHANGED <<wsAuth, wsChans, wsFirst, wsAuthResp, cmOnline, cmOthers>>

\* broadcast: a non-blocking send on the channel of every id in the map
FanoutTo(subs, ids, msg, cap) ==
  [i \in DOMAIN subs |->
     IF i \in ids /\ Len(subs[i]) < cap THEN Append(subs[i], msg) ELSE subs[i]]

\* a subscriber takes the next event from its channel
CM_Receive(i) ==
  /\ i \in DOMAIN cmSubscribers
  /\ cmSubscribers[i] # <<>>
  /\ cmSeen' = [cmSeen EXCEPT ![i] = Append(@, Head(cmSubscribers[i]))]
  /\ cmSubscribers' = [cmSubscribers EXCEPT ![i] = Tail(@)]
  /\ UNCHANGED <<cmConnections, cmTotals, wsId, wsPc, wsWriter, wsKeeper, wsDone, wsSendChan,
                 wsWriteMu, wsNet, wsStats, wsInWrite, wsWire, wsWriteFailed, cmRolled,
                 cmOffline, cmEarly, wsLastCmd, wsBudget>>
  /\ UNCHANGED <<wsAuth, wsChans, cmSubIDs, cmClosed, wsFirst, wsAuthResp, cmOnline, cmOthers>>

\* HandleConnection reads a first frame that it refuses: either it goes on to
\* send the error response or it returns at once
WS_HandleConnection_refuse(s, f) ==
  /\ wsPc[s] = "new"
  /\ \A r \in Sessions : r < s => wsPc[r] # "new"
  /\ Handshake(f) # "ok"
  /\ wsFirst' = [wsFirst EXCEPT ![s] = f]
  /\ wsPc' = [wsPc EXCEPT ![s] = IF Handshake(f) = "error" THEN "authError" ELSE "Close"]
  /\ UNCHANGED <<cmConnections, cmSubscribers, cmTotals, wsId, wsWriter, wsKeeper, wsDone,
                 wsSendChan, wsWriteMu, wsNet, wsStats, wsInWrite, wsWire, wsWriteFailed,
                 cmRolled, cmOffline, cmSeen, cmEarly, wsLastCmd, wsBudget>>
  /\ UNCHANGED <<wsAuth, wsChans, cmSubIDs, cmClosed, wsAuthResp, cmOnline, cmOthers>>

\* sendAuthResponse(conn, "error", ...) and the return that follows it
WS_sendAuthResponse_error(s) ==
  /\ wsPc[s] = "authError"
  /\ wsWire' = [wsWire EXCEPT ![s] = IF CanWrite(s) THEN Append(@, "handler") ELSE @]
  /\ wsAuthResp' = [wsAuthResp EXCEPT ![s] =
                      IF CanWrite(s) THEN Append(@, AuthResponse("error", ErrorText(wsFirst[s])))
                      ELSE @]
  /\ wsPc' = [wsPc EXCEPT ![s] = "Close"]
  /\ UNCHANGED <<cmConnections, cmSubscribers, cmTotals, wsId, wsWriter, wsKeeper, wsDone,
                 wsSendChan, wsWriteMu, wsNet, wsStats, wsInWrite, wsWriteFailed,
                 cmRolled, cmOffline, cmSeen, cmEarly, wsLastCmd, wsBudget>>
  /\ UNCHANGED <<wsAuth, wsChans, cmSubIDs, cmClosed, wsFirst, cmOnline, cmOthers>>

\* not the server's code: a handler that starts messageSender as soon as the
\* Session is registered
SenderAfter_Early(call) == "select"

\* where messageSender is once the handler has returned from call: the go
\* statement that starts it follows sendAuthResponse
SenderAfter(call) == IF call = "sendAuthResponse" THEN "select" ELSE "off"

\* HandleConnection up to and including the locked part of AddConnection: the
\* peer authenticated as p; the Session (Authenticated already set, LastSeen
\* the time of NewConnection) is stored under p, whatever was stored there
\* before.  Sessions are taken in order
\* and so are the identifiers they introduce.
CM_AddConnection(s, p) ==
  /\ wsPc[s] = "new"
  /\ \A r \in Sessions : r < s => wsPc[r] # "new"
  /\ IndexOf(PeerOrder, p) <= s
  /\ wsId' = [wsId EXCEPT ![s] = p]
  /\ wsAuth' = [wsAuth EXCEPT ![s] = TRUE]
  /\ cmConnections' = MapSet(cmConnections, p, s)
  /\ cmTotals' = [cmTotals EXCEPT !.connections = @ + 1]
  /\ wsFirst' = [wsFirst EXCEPT ![s] = AuthFrame(p, Tokens[p])]
  /\ wsPc' = [wsPc EXCEPT ![s] = "online"]
  /\ wsLastSeen' = [wsLastSeen EXCEPT ![s] = rsNow]
  /\ wsWriter' = [wsWriter EXCEPT ![s] = SenderAfter("AddConnection")]
  /\ UNCHANGED <<cmSubscribers, wsKeeper, wsDone, wsSendChan, wsWriteMu, wsNet,
                 wsStats, wsInWrite, wsWire, wsWriteFailed, cmRolled, cmOffline, cmSeen,
                 cmEarly, wsLastCmd, wsBudget>>
  /\ UNCHANGED <<wsChans, cmSubIDs, cmClosed, wsAuthResp, cmOnline>>
  /\ UNCHANGED <<esVars, ssVars, rsVars, obVars, shVars, rxButLastSeen>>

\* AddConnection, after the unlock: broadcast the online event
CM_broadcastOnline(s) ==
  /\ wsPc[s] = "online"
  /\ cmSubscribers' = FanoutTo(cmSubscribers, cmSubIDs, PresenceEvent("online", wsId[s]), PresenceCap)
  /\ cmOnline' = [cmOnline EXCEPT ![s] = TRUE]
  /\ wsPc' = [wsPc EXCEPT ![s] = "MarkAuthenticated"]
  /\ UNCHANGED <<cmConnections, cmTotals, wsId, wsWriter, wsKeeper, wsDone, wsSendChan,
                 wsWriteMu, wsNet, wsStats, wsInWrite, wsWire, wsWriteFailed, cmRolled,
                 cmOffline, cmSeen, cmEarly, wsLastCmd, wsBudget>>
  /\ UNCHANGED <<wsAuth, wsChans, cmSubIDs, cmClosed, wsFirst, wsAuthResp, cmOthers>>

\* MarkAuthenticated(identifier): counts when something is registered under it
CM_MarkAuthenticated(s) ==
  /\ wsPc[s] = "MarkAuthenticated"
  /\ cmTotals' = IF wsId[s] \in DOMAIN cmConnections
                 THEN [cmTotals EXCEPT !.authenticated = @ + 1]
                 ELSE cmTotals
  /\ wsAuth' = IF wsId[s] \in DOMAIN cmConnections
               THEN [wsAuth EXCEPT ![cmConnections[wsId[s]]] = TRUE]
               ELSE wsAuth
  /\ wsPc' = [wsPc EXCEPT ![s] = "SetVersion"]
  /\ UNCHANGED <<cmConnections, cmSubscribers, wsId, wsWriter, wsKeeper, wsDone, wsSendChan,
                 wsWriteMu, wsNet, wsStats, wsInWrite, wsWire, wsWriteFailed, cmRolled,
                 cmOffline, cmSeen, cmEarly, wsLastCmd, wsBudget>>
  /\ UNCHANGED <<wsChans, cmSubIDs, cmClosed, wsFirst, wsAuthResp, cmOnline, cmOthers>>

\* stateStore.SetVersion(identifier, version), as SS_SetVersion: under the
\* write lock the record of the identifier (made if there is none) gets the
\* reported version; go ss.saveToFile() starts a save on a free goroutine
WS_SetVersion(s) ==
  /\ wsPc[s] = "SetVersion"
  /\ ~ssLocked
  /\ \E t \in StateTasks :
       /\ FreeTask(ssPc, t)
       /\ ssPc' = [ssPc EXCEPT ![t] = "snapshot"]
       /\ ssMsg' = [ssMsg EXCEPT ![t] = NoMsg]
  /\ LET e == Ensure(ssStates, ssRecs, ssTop, wsId[s]) IN
       /\ ssStates' = e.states
       /\ ssRecs' = [e.recs EXCEPT ![e.idx] = WithVersion(@, Version(s))]
       /\ ssTop' = e.top
       /\ ssApplied' = IF e.idx > Len(ssApplied) THEN Append(ssApplied, <<>>) ELSE ssApplied
  /\ wsPc' = [wsPc EXCEPT ![s] = "sendAuthResponse"]
  /\ UNCHANGED <<cmConnections, cmSubscribers, cmTotals, wsId, wsWriter, wsKeeper, wsDone,
                 wsSendChan, wsWriteMu, wsNet, wsStats, wsInWrite, wsWire, wsWriteFailed,
                 cmRolled, cmOffline, cmSeen, cmEarly, wsLastCmd, wsBudget>>
  /\ UNCHANGED <<wsAuth, wsChans, cmSubIDs, cmClosed, wsFirst, wsAuthResp, cmOnline>>
  /\ UNCHANGED <<ssNest, ssLocked, ssSubs, ssInodes, ssTmp, ssFinal, ssData, ssFd, ssView,
                 ssTaken, ssOps, ssSeen>>
  /\ UNCHANGED <<esVars, rsVars, obVars, shVars, rxVars>>

\* sendAuthResponse: the handler enters conn.WriteMessage (without WriteMu)
WS_sendAuthResponse_begin(s) ==
  /\ wsPc[s] = "sendAuthResponse"
  /\ wsInWrite' = [wsInWrite EXCEPT ![s] = @ \cup {"handler"}]
  /\ wsPc' = [wsPc EXCEPT ![s] = "authWriting"]
  /\ UNCHANGED <<cmConnections, cmSubscribers, cmTotals, wsId, wsWriter, wsKeeper, wsDone,
                 wsSendChan, wsWriteMu, wsNet, wsStats, wsWire, wsWriteFailed, cmRolled,
                 cmOffline, cmSeen, cmEarly, wsLastCmd, wsBudget>>
  /\ UNCHANGED <<wsAuth, wsChans, cmSubIDs, cmClosed, wsFirst, wsAuthResp, cmOnline, cmOthers>>

\* sendAuthResponse returns (an error is only logged); the handler starts
\* keepaliveSender and messageSender and enters messageReceiver
WS_sendAuthResponse_end(s) ==
  /\ wsPc[s] = "authWriting"
  /\ wsInWrite' = [wsInWrite EXCEPT ![s] = @ \ {"handler"}]
  /\ wsWire' = [wsWire EXCEPT ![s] = IF CanWrite(s) THEN Append(@, "handler") ELSE @]
  /\ wsAuthResp' = [wsAuthResp EXCEPT ![s] =
                      IF CanWrite(s) THEN Append(@, AuthResponse("success", "")) ELSE @]
  /\ wsKeeper' = [wsKeeper EXCEPT ![s] = "select"]
  /\ wsWriter' = [wsWriter EXCEPT ![s] = SenderAfter("sendAuthResponse")]
  /\ wsPc' = [wsPc EXCEPT ![s] = "read"]
  /\ UNCHANGED <<cmConnections, cmSubscribers, cmTotals, wsId, wsDone, wsSendChan, wsWriteMu,
                 wsNet, wsStats, wsWriteFailed, cmRolled, cmOffline, cmSeen, cmEarly,
                 wsLastCmd, wsBudget>>
  /\ UNCHANGED <<wsAuth, wsChans, cmSubIDs, cmClosed, wsFirst, cmOnline, cmOthers>>

\* messageReceiver: a state, change or event frame arrives and is counted,
\* and last-seen is set to the time of its arrival
WS_messageReceiver_frame(s) ==
  /\ wsPc[s] = "read"
  /\ CanRead(s)
  /\ wsBudget < MaxInputs
  /\ wsStats' = [wsStats EXCEPT ![s].telemetry = @ + 1]
  /\ wsLastSeen' = [wsLastSeen EXCEPT ![s] = rsNow]
  /\ wsBudget' = wsBudget + 1
  /\ UNCHANGED <<cmConnections, cmSubscribers, cmTotals, wsId, wsPc, wsWriter, wsKeeper, wsDone,
                 wsSendChan, wsWriteMu, wsNet, wsInWrite, wsWire, wsWriteFailed, cmRolled,
                 cmOffline, cmSeen, cmEarly, wsLastCmd>>
  /\ UNCHANGED <<wsAuth, wsChans, cmSubIDs, cmClosed, wsFirst, wsAuthResp, cmOnline>>
  /\ UNCHANGED <<esVars, ssVars, rsVars, obVars, shVars, rxButLastSeen>>

\* the peer closes, or the read side of the transport breaks
WS_readBreaks(s) ==
  /\ wsPc[s] = "read"
  /\ wsNet[s].rd
  /\ wsBudget < MaxInputs
  /\ wsNet' = [wsNet EXCEPT ![s].rd = FALSE]
  /\ wsBudget' = wsBudget + 1
  /\ UNCHANGED <<cmConnections, cmSubscribers, cmTotals, wsId, wsPc, wsWriter, wsKeeper, wsDone,
                 wsSendChan, wsWriteMu, wsStats, wsInWrite, wsWire, wsWriteFailed, cmRolled,
                 cmOffline, cmSeen, cmEarly, wsLastCmd>>
  /\ UNCHANGED <<wsAuth, wsChans, cmSubIDs, cmClosed, wsFirst, wsAuthResp, cmOnline, cmOthers>>

\* the write side of the transport breaks while the peer keeps sending
WS_writeBreaks(s) ==
  /\ wsPc[s] = "read"
  /\ wsNet[s].wr
  /\ wsBudget < MaxInputs
  /\ wsNet' = [wsNet EXCEPT ![s].wr = FALSE]
  /\ wsBudget' = wsBudget + 1
  /\ UNCHANGED <<cmConnections, cmSubscribers, cmTotals, wsId, wsPc, wsWriter, wsKeeper, wsDone,
                 wsSendChan, wsWriteMu, wsStats, wsInWrite, wsWire, wsWriteFailed, cmRolled,
                 cmOffline, cmSeen, cmEarly, wsLastCmd>>
  /\ UNCHANGED <<wsAuth, wsChans, cmSubIDs, cmClosed, wsFirst, wsAuthResp, cmOnline, cmOthers>>

\* messageReceiver: ReadMessage fails, the reader returns and the deferred
\* close(done) runs
WS_messageReceiver_error(s) ==
  /\ wsPc[s] = "read"
  /\ ~CanRead(s)
  /\ wsDone' = [wsDone EXCEPT ![s] = TRUE]
  /\ wsPc' = [wsPc EXCEPT ![s] = "RemoveConnection"]
  /\ UNCHANGED <<cmConnections, cmSubscribers, cmTotals, wsId, wsWriter, wsKeeper, wsSendChan,
                 wsWriteMu, wsNet, wsStats, wsInWrite, wsWire, wsWriteFailed, cmRolled,
                 cmOffline, cmSeen, cmEarly, wsLastCmd, wsBudget>>
  /\ UNCHANGED <<wsAuth, wsChans, cmSubIDs, cmClosed, wsFirst, wsAuthResp, cmOnline, cmOthers>>

\* the deferred RemoveConnection(identifier), locked part: whatever Session is
\* registered under the identifier has its counters added to the totals and is
\* deleted; nothing happens when the identifier is not registered
CM_RemoveConnection(s) ==
  /\ wsPc[s] = "RemoveConnection"
  /\ IF wsId[s] \in DOMAIN cmConnections
     THEN LET r == cmConnections[wsId[s]] IN
            /\ cmTotals' = [cmTotals EXCEPT !.telemetry = @ + wsStats[r].telemetry,
                                            !.commands = @ + wsStats[r].commands]
            /\ cmRolled' = [cmRolled EXCEPT ![r] = @ + 1]
            /\ cmConnections' = MapDelete(cmConnections, wsId[s])
            /\ wsPc' = [wsPc EXCEPT ![s] = "offline"]
     ELSE /\ wsPc' = [wsPc EXCEPT ![s] = "Close"]
          /\ UNCHANGED <<cmTotals, cmRolled, cmConnections>>
  /\ UNCHANGED <<cmSubscribers, wsId, wsWriter, wsKeeper, wsDone, wsSendChan, wsWriteMu, wsNet,
                 wsStats, wsInWrite, wsWire, wsWriteFailed, cmOffline, cmSeen, cmEarly,
                 wsLastCmd, wsBudget>>
  /\ UNCHANGED <<wsAuth, wsChans, cmSubIDs, cmClosed, wsFirst, wsAuthResp, cmOnline, cmOthers>>

\* RemoveConnection, after the unlock: broadcast the offline event
CM_broadcastOffline(s) ==
  /\ wsPc[s] = "offline"
  /\ cmSubscribers' = FanoutTo(cmSubscribers, cmSubIDs, PresenceEvent("offline", wsId[s]), PresenceCap)
  /\ cmOffline' = [cmOffline EXCEPT ![s] = TRUE]
  /\ wsPc' = [wsPc EXCEPT ![s] = "Close"]
  /\ UNCHANGED <<cmConnections, cmTotals, wsId, wsWriter, wsKeeper, wsDone, wsSendChan,
                 wsWriteMu, wsNet, wsStats, wsInWrite, wsWire, wsWriteFailed, cmRolled,
                 cmSeen, cmEarly, wsLastCmd, wsBudget>>
  /\ UNCHANGED <<wsAuth, wsChans, cmSubIDs, cmClosed, wsFirst, wsAuthResp, cmOnline, cmOthers>>

\* the deferred conn.Close(): the handler is finished
WS_Close(s) ==
  /\ wsPc[s] = "Close"
  /\ wsNet' = [wsNet EXCEPT ![s].closed = TRUE]
  /\ wsPc' = [wsPc EXCEPT ![s] = "exited"]
  /\ UNCHANGED <<cmConnections, cmSubscribers, cmTotals, wsId, wsWriter, wsKeeper, wsDone,
                 wsSendChan, wsWriteMu, wsStats, wsInWrite, wsWire, wsWriteFailed, cmRolled,
                 cmOffline, cmSeen, cmEarly, wsLastCmd, wsBudget>>
  /\ UNCHANGED <<wsAuth, wsChans, cmSubIDs, cmClosed, wsFirst, wsAuthResp, cmOnline, cmOthers>>

\* messageSender: the select takes the done case
WS_messageSender_done(s) ==
  /\ wsWriter[s] = "select"
  /\ wsDone[s]
  /\ wsWriter' = [wsWriter EXCEPT ![s] = "exited"]
  /\ UNCHANGED <<cmConnections, cmSubscribers, cmTotals, wsId, wsPc, wsKeeper, wsDone,
                 wsSendChan, wsWriteMu, wsNet, wsStats, wsInWrite, wsWire, wsWriteFailed,
                 cmRolled, cmOffline, cmSeen, cmEarly, wsLastCmd, wsBudget>>
  /\ UNCHANGED <<wsAuth, wsChans, cmSubIDs, cmClosed, wsFirst, wsAuthResp, cmOnline, cmOthers>>

\* messageSender: the select takes a frame from the queue, locks WriteMu and
\* enters WriteMessage
WS_messageSender_take(s) ==
  /\ wsWriter[s] = "select"
  /\ wsSendChan[s] # <<>>
  /\ wsWriteMu[s] = None
  /\ wsSendChan' = [wsSendChan EXCEPT ![s] = Tail(@)]
  /\ wsWriteMu' = [wsWriteMu EXCEPT ![s] = "writer"]
  /\ wsInWrite' = [wsInWrite EXCEPT ![s] = @ \cup {"writer"}]
  /\ wsWriter' = [wsWriter EXCEPT ![s] = "writing"]
  /\ UNCHANGED <<cmConnections, cmSubscribers, cmTotals, wsId, wsPc, wsKeeper, wsDone, wsNet,
                 wsStats, wsWire, wsWriteFailed, cmRolled, cmOffline, cmSeen, cmEarly,
                 wsLastCmd, wsBudget>>
  /\ UNCHANGED <<wsAuth, wsChans, cmSubIDs, cmClosed, wsFirst, wsAuthResp, cmOnline, cmOthers>>

\* messageSender: WriteMessage returns and WriteMu is unlocked; on an error the
\* task returns, and that is all it does
WS_messageSender_written(s) ==
  /\ wsWriter[s] = "writing"
  /\ wsWriteMu' = [wsWriteMu EXCEPT ![s] = None]
  /\ wsInWrite' = [wsInWrite EXCEPT ![s] = @ \ {"writer"}]
  /\ IF CanWrite(s)
     THEN /\ wsWire' = [wsWire EXCEPT ![s] = Append(@, "writer")]
          /\ wsWriter' = [wsWriter EXCEPT ![s] = "select"]
          /\ UNCHANGED wsWriteFailed
     ELSE /\ wsWriteFailed' = [wsWriteFailed EXCEPT ![s] = TRUE]
          /\ wsWriter' = [wsWriter EXCEPT ![s] = "exited"]
          /\ UNCHANGED wsWire
  /\ UNCHANGED <<cmConnections, cmSubscribers, cmTotals, wsId, wsPc, wsKeeper, wsDone,
                 wsSendChan, wsNet, wsStats, cmRolled, cmOffline, cmSeen, cmEarly, wsLastCmd,
                 wsBudget>>
  /\ UNCHANGED <<wsAuth, wsChans, cmSubIDs, cmClosed, wsFirst, wsAuthResp, cmOnline, cmOthers>>

\* not the server's code: a send that grows the queue beyond its capacity
Enqueue_Unbounded(chan, s, frame) == [chan EXCEPT ![s] = Append(@, frame)]

\* a non-blocking send of frame on the queue of s: dropped when the queue is full
Enqueue(chan, s, frame) ==
  [chan EXCEPT ![s] = IF Len(@) < SendChanCap THEN Append(@, frame) ELSE @]

\* not the server's code: a keeper that writes its frame to the transport itself
KeeperSend_WritesItself(s) ==
  /\ wsWire' = [wsWire EXCEPT ![s] = IF CanWrite(s) THEN Append(@, "keeper") ELSE @]
  /\ UNCHANGED wsSendChan

\* what keepaliveSender does with its keepalive frame
KeeperSend(s) ==
  /\ wsSendChan' = Enqueue(wsSendChan, s, "keepalive")
  /\ UNCHANGED wsWire

\* keepaliveSender: the select takes the done case
WS_keepaliveSender_done(s) ==
  /\ wsKeeper[s] = "select"
  /\ wsDone[s]
  /\ wsKeeper' = [wsKeeper EXCEPT ![s] = "exited"]
  /\ UNCHANGED <<cmConnections, cmSubscribers, cmTotals, wsId, wsPc, wsWriter, wsDone,
                 wsSendChan, wsWriteMu, wsNet, wsStats, wsInWrite, wsWire, wsWriteFailed,
                 cmRolled, cmOffline, cmSeen, cmEarly, wsLastCmd, wsBudget>>
  /\ UNCHANGED <<wsAuth, wsChans, cmSubIDs, cmClosed, wsFirst, wsAuthResp, cmOnline, cmOthers>>

\* keepaliveSender: the ticker fires and the peer is not idle
WS_keepaliveSender_tick(s) ==
  /\ wsKeeper[s] = "select"
  /\ wsBudget < MaxInputs
  /\ KeeperSend(s)
  /\ wsBudget' = wsBudget + 1
  /\ UNCHANGED <<cmConnections, cmSubscribers, cmTotals, wsId, wsPc, wsWriter, wsKeeper, wsDone,
                 wsWriteMu, wsNet, wsStats, wsInWrite, wsWriteFailed, cmRolled, cmOffline,
                 cmSeen, cmEarly, wsLastCmd>>
  /\ UNCHANGED <<wsAuth, wsChans, cmSubIDs, cmClosed, wsFirst, wsAuthResp, cmOnline, cmOthers>>

\* keepaliveSender: the ticker fires and the peer has been idle for longer than
\* idleTimeout: the transport is closed and the task returns
WS_keepaliveSender_idle(s) ==
  /\ wsKeeper[s] = "select"
  /\ wsBudget < MaxInputs
  /\ wsNet' = [wsNet EXCEPT ![s].closed = TRUE]
  /\ wsKeeper' = [wsKeeper EXCEPT ![s] = "exited"]
  /\ wsBudget' = wsBudget + 1
  /\ UNCHANGED <<cmConnections, cmSubscribers, cmTotals, wsId, wsPc, wsWriter, wsDone,
                 wsSendChan, wsWriteMu, wsStats, wsInWrite, wsWire, wsWriteFailed, cmRolled,
                 cmOffline, cmSeen, cmEarly, wsLastCmd>>
  /\ UNCHANGED <<wsAuth, wsChans, cmSubIDs, cmClosed, wsFirst, wsAuthResp, cmOnline, cmOthers>>

\* not the server's code: a keeper that compares with a timeout of 0 as well
IsIdle_AnyTimeout(s) == rsNow - wsLastSeen[s] > wsIdleTimeout

\* keepaliveSender's idle check: a timeout is configured and the last frame
\* of the peer is older than it
IsIdle(s) == wsIdleTimeout > 0 /\ rsNow - wsLastSeen[s] > wsIdleTimeout

\* keepaliveSender with the clock: the ticker fires, the idle check fails and
\* the keepalive is enqueued
KA_keepaliveSender_tick(s) ==
  /\ ~IsIdle(s)
  /\ WS_keepaliveSender_tick(s)

\* keepaliveSender with the clock: the ticker fires and the idle check holds
KA_keepaliveSender_idle(s) ==
  /\ IsIdle(s)
  /\ WS_keepaliveSender_idle(s)

\* not the server's code: a SendCommand that counts the command before it
\* knows whether the queue took it
CountCommand_Always(stats, r, sent) == [stats EXCEPT ![r].commands = @ + 1]

\* SendCommand counts the command only after the queue took it
CountCommand(stats, r, sent) == IF sent THEN [stats EXCEPT ![r].commands = @ + 1] ELSE stats

\* SendCommand(p, ...): looks the Session up, checks Authenticated and
\* enqueues without blocking; a send on a closed channel panics
WS_SendCommand(p) ==
  /\ wsBudget < MaxInputs
  /\ wsBudget' = wsBudget + 1
  /\ IF p \notin DOMAIN cmConnections
     THEN /\ wsLastCmd' = [session |-> 0, ok |-> FALSE, err |-> "NotConnected"]
          /\ UNCHANGED <<wsSendChan, wsStats, wsChans>>
     ELSE LET r == cmConnections[p] IN
            IF ~wsAuth[r]
            THEN /\ wsLastCmd' = [session |-> r, ok |-> FALSE, err |-> "NotAuthenticated"]
                 /\ UNCHANGED <<wsSendChan, wsStats, wsChans>>
            ELSE IF wsChans[r].sendClosed
            THEN /\ wsLastCmd' = [session |-> r, ok |-> FALSE, err |-> "panic"]
                 /\ UNCHANGED <<wsSendChan, wsStats, wsChans>>
            ELSE LET sent == Len(wsSendChan[r]) < SendChanCap IN
                   /\ wsSendChan' = Enqueue(wsSendChan, r, "command")
                   /\ wsStats' = CountCommand(wsStats, r, sent)
                   /\ wsLastCmd' = [session |-> r, ok |-> sent,
                                    err |-> IF sent THEN "" ELSE "Backpressure"]
                   /\ wsChans' = [wsChans EXCEPT ![r].sentAfter = @ \/ (sent /\ wsChans[r].done)]
  /\ UNCHANGED <<cmConnections, cmSubscribers, cmTotals, wsId, wsPc, wsWriter, wsKeeper, wsDone,
                 wsWriteMu, wsNet, wsInWrite, wsWire, wsWriteFailed, cmRolled, cmOffline,
                 cmSeen, cmEarly>>
  /\ UNCHANGED <<wsAuth, cmSubIDs, cmClosed, wsFirst, wsAuthResp, cmOnline, cmOthers>>

\* the earlier Connection.Close, which closed done and the outbound queue
ConnClose_Earlier(c) == [c EXCEPT !.done = TRUE, !.sendClosed = TRUE]

\* Connection.Close: close(c.done) and nothing else
ConnClose(c) == [c EXCEPT !.done = TRUE]

\* a caller of Connection.Close() on a Connection that exists (a second Close
\* panics in the caller on the closed done channel and changes nothing)
CONN_Close(s) ==
  /\ wsPc[s] # "new"
  /\ ~wsChans[s].done
  /\ wsChans' = [wsChans EXCEPT ![s] = ConnClose(@)]
  /\ UNCHANGED <<cmConnections, cmSubscribers, cmTotals, wsId, wsPc, wsWriter, wsKeeper, wsDone,
                 wsSendChan, wsWriteMu, wsNet, wsStats, wsInWrite, wsWire, wsWriteFailed,
                 cmRolled, cmOffline, cmSeen, cmEarly, wsLastCmd, wsBudget>>
  /\ UNCHANGED <<wsAuth, cmSubIDs, cmClosed, wsFirst, wsAuthResp, cmOnline, cmOthers>>

\* the steps of HandleConnection that wait for nothing outside the server
HandlerStep(s) ==
  \/ CM_broadcastOnline(s)
  \/ CM_MarkAuthenticated(s)
  \/ WS_SetVersion(s)
  \/ WS_sendAuthResponse_begin(s)
  \/ WS_sendAuthResponse_end(s)
  \/ WS_messageReceiver_error(s)
  \/ CM_RemoveConnection(s)
  \/ CM_broadcastOffline(s)
  \/ WS_Close(s)

\* the steps of messageSender
WriterStep(s) ==
  \/ WS_messageSender_done(s)
  \/ WS_messageSender_take(s)
  \/ WS_messageSender_written(s)

\* what arrives from outside: peers connecting, frames, faults, ticks, commands
SessInput ==
  \/ \E s \in Sessions, p \in Peers : CM_AddConnection(s, p)
  \/ \E s \in Sessions : WS_messageReceiver_frame(s)
  \/ \E s \in Sessions : WS_readBreaks(s)
  \/ \E s \in Sessions : WS_writeBreaks(s)
  \/ \E s \in Sessions : WS_keepaliveSender_tick(s)
  \/ \E s \in Sessions : WS_keepaliveSender_idle(s)
  \/ \E p \in Peers : WS_SendCommand(p)

\* the sum of one Connection counter over a set of Sessions
RECURSIVE SumStat(_, _, _)
SumStat(stats, S, field) ==
  IF S = {} THEN 0
  ELSE LET s == CHOOSE x \in S : TRUE
       IN stats[s][field] + SumStat(stats, S \ {s}, field)

\* ConnectionManager.GetStats: the rolled-up totals plus the counters of the
\* Sessions that are in the map now
GetStats ==
  LET live == {cmConnections[p] : p \in DOMAIN cmConnections}
      currentTelemetry == SumStat(wsStats, live, "telemetry")
      currentCommands == SumStat(wsStats, live, "commands")
  IN [active_connections |-> Cardinality(DOMAIN cmConnections),
      authenticated |-> Cardinality({s \in live : wsAuth[s]}),
      total_connections |-> cmTotals.connections,
      total_authenticated |-> cmTotals.authenticated,
      current_telemetry |-> currentTelemetry,
      total_telemetry |-> cmTotals.telemetry + currentTelemetry,
      current_commands |-> currentCommands,
      total_commands |-> cmTotals.commands + currentCommands]

\* the presence subscribers (observer sessions)
NextPresence ==
  \/ CM_Subscribe
  \/ \E i \in 1..MaxPresenceSubs : CM_Receive(i)

\* Sessions coming and going, with subscribers that also unsubscribe
NextSubscriptions ==
  \/ \E s \in Sessions, p \in Peers : CM_AddConnection(s, p)
  \/ \E s \in Sessions : WS_readBreaks(s)
  \/ \E s \in Sessions : HandlerStep(s)
  \/ NextPresence
  \/ \E i \in 1..MaxPresenceSubs : CM_Unsubscribe(i)

NextSess ==
  \/ SessInput
  \/ \E s \in Sessions : HandlerStep(s)
  \/ \E s \in Sessions : WriterStep(s)
  \/ \E s \in Sessions : WS_keepaliveSender_done(s)

\* the Sessions with peers whose first frame is refused
NextAuth ==
  \/ NextSess
  \/ \E s \in Sessions, f \in FirstFrames : WS_HandleConnection_refuse(s, f)
  \/ \E s \in Sessions : WS_sendAuthResponse_error(s)

\* the Sessions with callers of Connection.Close
NextClose ==
  \/ NextSess
  \/ \E s \in Sessions : CONN_Close(s)

\* the scheduler runs every task that can take a step; nothing obliges the
\* outside to act
FairSess ==
  \A s \in Sessions :
    /\ WF_vars(HandlerStep(s))
    /\ WF_vars(WriterStep(s))
    /\ WF_vars(WS_keepaliveSender_done(s))

(***************************************************************************)
(* The parked command responses (storage.ResponseStore) and the request    *)
(* ids SendCommand mints                                                   *)
(***************************************************************************)
\* clock ticks in one microsecond
TicksPerMicro == 2

Statuses == {"success", "running"}

\* generateRequestID: the time formatted down to the microsecond
generateRequestID(now) == now \div TicksPerMicro

RequestIDs == {generateRequestID(t) : t \in 0..MaxClock}

InitResp ==
  /\ rsResponses = EmptyMap
  /\ rsNow = 0
  /\ rsIssued = {}
  /\ rsSent = <<>>
  /\ rsLast = EmptyMap
  /\ rsStored = 0

\* time passes
RS_Tick ==
  /\ rsNow < MaxClock
  /\ rsNow' = rsNow + 1
  /\ UNCHANGED <<rsResponses, rsIssued, rsSent, rsLast, rsStored>>
  /\ UNCHANGED rsOthers

\* SendCommand to peer p, as far as the request id goes: a successful call
\* returns the id minted from the clock (the enqueue is WS_SendCommand)
RS_SendCommand(p) ==
  /\ Len(rsSent) < MaxCommands
  /\ rsIssued' = rsIssued \cup {generateRequestID(rsNow)}
  /\ rsSent' = Append(rsSent, [RequestID |-> generateRequestID(rsNow), ScooterID |-> p])
  /\ UNCHANGED <<rsResponses, rsNow, rsLast, rsStored>>
  /\ UNCHANGED rsOthers

\* not the server's code: a store that keeps the entry it has under the id
Store_KeepsFirst(responses, id, rec) ==
  IF id \in DOMAIN responses THEN responses ELSE MapSet(responses, id, rec)

\* ResponseStore.Store: rs.responses[requestID] = record
Store(responses, id, rec) == MapSet(responses, id, rec)

\* ResponseStore.GetByScooter: the records whose ScooterID is p (a slice in
\* the order of the map's iteration, here a set)
GetByScooter(responses, p) ==
  {responses[id] : id \in {i \in DOMAIN responses : responses[i].ScooterID = p}}

\* messageReceiver dispatches a command_response frame of peer p:
\* responseStore.Store(request id, p, "", response)
RS_Store(id, p, status) ==
  /\ rsStored < MaxResponses
  /\ LET rec == [RequestID |-> id, ScooterID |-> p, Command |-> "",
                 Status |-> status, ReceivedAt |-> rsNow]
     IN /\ rsResponses' = Store(rsResponses, id, rec)
        /\ rsLast' = MapSet(rsLast, id, rec)
  /\ rsStored' = rsStored + 1
  /\ UNCHANGED <<rsNow, rsIssued, rsSent>>
  /\ UNCHANGED rsOthers

\* not the server's code: every record counts as expired
Expired_Always(rec, now) == now >= rec.ReceivedAt

\* cleanup's test: the record is older than the TTL
Expired(rec, now) == now - rec.ReceivedAt > Ttl

\* one sweep of the cleanup goroutine
RS_cleanup ==
  /\ \E id \in DOMAIN rsResponses : Expired(rsResponses[id], rsNow)
  /\ rsResponses' = [id \in {i \in DOMAIN rsResponses : ~Expired(rsResponses[i], rsNow)}
                       |-> rsResponses[id]]
  /\ UNCHANGED <<rsNow, rsIssued, rsSent, rsLast, rsStored>>
  /\ UNCHANGED rsOthers

Pending(id) == [request_id |-> id, status |-> "pending"]

\* ResponseStore.Get and handleGetCommandResponse: the answer to GET /api/commands/id
result(responses, id) ==
  IF id \notin DOMAIN responses THEN Pending(id)
  ELSE [request_id |-> responses[id].RequestID, scooter_id |-> responses[id].ScooterID,
        status |-> responses[id].Status, received_at |-> responses[id].ReceivedAt]

\* the answer that holds the response frame rec
Parked(rec) ==
  [request_id |-> rec.RequestID, scooter_id |-> rec.ScooterID,
   status |-> rec.Status, received_at |-> rec.ReceivedAt]

NextResp ==
  \/ RS_Tick
  \/ \E p \in Peers : RS_SendCommand(p)
  \/ \E id \in RequestIDs, p \in Peers, st \in Statuses : RS_Store(id, p, st)
  \/ RS_cleanup

\* the Sessions with a clock, the keeper's idle check reading it; the peers
\* send frames, are silent or close
NextKeeper ==
  \/ RS_Tick
  \/ \E p \in Peers : CM_AddConnection(1, p)
  \/ \E s \in Sessions : WS_messageReceiver_frame(s)
  \/ \E s \in Sessions : WS_readBreaks(s)
  \/ \E s \in Sessions : WS_writeBreaks(s)
  \/ \E s \in Sessions : KA_keepaliveSender_tick(s)
  \/ \E s \in Sessions : KA_keepaliveSender_idle(s)
  \/ \E p \in Peers : WS_SendCommand(p)
  \/ \E s \in Sessions : HandlerStep(s)
  \/ \E s \in Sessions : WriterStep(s)
  \/ \E s \in Sessions : WS_keepaliveSender_done(s)

(***************************************************************************)
(* The reader of a peer Session, frame by frame                            *)
(* (handlers.WebSocketHandler.messageReceiver)                             *)
(*                                                                         *)
(* One iteration of the loop is ReadMessage, the wait for the rate         *)
(* limiter's tick when a limit is configured, the counters and last-seen,  *)
(* the parse and the call of the store the frame is for.  The reader of    *)
(* Session s is the goroutine ReaderTask(s) of the stores.                 *)
(***************************************************************************)
\* the configured message_rate_limit when there is one, in frames per second
RateLimit == 2

\* capacity of a time.Ticker's channel
TickerCap == 1

\* the kinds of frame a peer sends after its handshake: [json, type, fields]
FrameKinds ==
  {<<FALSE, "", FALSE>>, <<TRUE, "bogus", TRUE>>, <<TRUE, "state", FALSE>>,
   <<TRUE, "keepalive", TRUE>>, <<TRUE, "state", TRUE>>, <<TRUE, "event", TRUE>>,
   <<TRUE, "command_response", TRUE>>}

\* the data of the state frames an authenticated peer sends
LivePayload == [isNil |-> FALSE, data |-> DataB]

\* the goroutine of Session s inside the state store and the event log
ReaderTask(s) == IF s = 1 THEN [state |-> "u1", event |-> "t1"]
                 ELSE [state |-> "u2", event |-> "t2"]

\* the calls the stores have taken so far
StoreCalls == ssOps + Len(esLog["p1"]) + Len(esLog["p2"]) + rsStored

\* every variable of the registry and the Sessions that the reader's loop
\* leaves alone
cmButReader ==
  <<cmConnections, cmSubscribers, cmSubIDs, cmClosed, wsChans, wsFirst, wsAuthResp, cmOnline,
    cmTotals, wsId, wsAuth, wsWriter, wsKeeper, wsDone, wsSendChan, wsWriteMu, wsNet,
    wsInWrite, wsWire, wsWriteFailed, cmRolled, cmOffline, cmSeen, cmEarly, wsLastCmd>>

\* not the server's code: a reader that never waits for the limiter
AfterRead_NoLimit(rate) == "process"

\* where the reader goes with the frame it has read: to the limiter's
\* channel when a rate limit is configured
AfterRead(rate) == IF rate > 0 THEN "limit" ELSE "process"

\* not the server's code: a dispatch that does not look at the parse errors
Dispatch_Unchecked(f) ==
  IF f.type \in {"state", "event", "command_response"} THEN f.type ELSE "none"

\* the store call the reader makes for frame f ("none": the frame is logged
\* at most): the base message must parse, the type must be one of the
\* switch and the message of that type must parse
Dispatch(f) ==
  IF ~f.json THEN "none"
  ELSE IF f.type \in {"state", "event", "command_response"}
       THEN IF f.fields THEN f.type ELSE "none"
       ELSE "none"

\* IncrementTelemetryReceived: state and event frames that parse
Telemetry(f) == IF Dispatch(f) \in {"state", "event"} THEN 1 ELSE 0

\* conn.Conn.ReadMessage returns the next frame of the peer
RD_ReadMessage(s, k) ==
  /\ wsPc[s] = "read"
  /\ CanRead(s)
  /\ wsBudget < MaxInputs
  /\ LET f == PeerFrame(k[1], k[2], k[3], Len(wsRead[s]) + 1) IN
       /\ wsHeld' = [wsHeld EXCEPT ![s] = f]
       /\ wsRead' = [wsRead EXCEPT ![s] = Append(@, f)]
  /\ wsPc' = [wsPc EXCEPT ![s] = AfterRead(wsRateLimit)]
  /\ wsBudget' = wsBudget + 1
  /\ UNCHANGED <<cmButReader, wsStats>>
  /\ UNCHANGED <<wsLastSeen, wsIdleTimeout, wsRateLimit, wsTicker, wsTokens, wsCall,
                 wsDispatched, wsMsgs>>
  /\ UNCHANGED <<esVars, ssVars, rsVars, obVars, shVars>>

\* the ticker of the running reader fires: the tick goes into the channel
\* unless one is waiting there
RD_ticker(s) ==
  /\ wsRateLimit > 0
  /\ wsPc[s] \in {"read", "limit", "process", "call"}
  /\ wsTicker[s] < TickerCap
  /\ wsTokens[s].issued < MaxTicks
  /\ wsTicker' = [wsTicker EXCEPT ![s] = @ + 1]
  /\ wsTokens' = [wsTokens EXCEPT ![s].issued = @ + 1]
  /\ UNCHANGED <<cmVars, wsLastSeen, wsIdleTimeout, wsRateLimit, wsHeld, wsCall, wsRead,
                 wsDispatched, wsMsgs>>
  /\ UNCHANGED <<esVars, ssVars, rsVars, obVars, shVars>>

\* <-rateLimiter: the reader takes a tick
RD_rateLimiter(s) ==
  /\ wsPc[s] = "limit"
  /\ wsTicker[s] > 0
  /\ wsTicker' = [wsTicker EXCEPT ![s] = @ - 1]
  /\ wsTokens' = [wsTokens EXCEPT ![s].taken = @ + 1]
  /\ wsPc' = [wsPc EXCEPT ![s] = "process"]
  /\ UNCHANGED <<cmButReader, wsStats, wsBudget>>
  /\ UNCHANGED <<wsLastSeen, wsIdleTimeout, wsRateLimit, wsHeld, wsCall, wsRead,
                 wsDispatched, wsMsgs>>
  /\ UNCHANGED <<esVars, ssVars, rsVars, obVars, shVars>>

\* the counters and last-seen, the parse and the switch: a frame that does
\* not parse or has an unknown type is logged and the loop continues; the
\* others are counted as telemetry and go to their store
RD_dispatch(s) ==
  /\ wsPc[s] = "process"
  /\ wsMsgs' = [wsMsgs EXCEPT ![s] = @ + 1]
  /\ wsLastSeen' = [wsLastSeen EXCEPT ![s] = rsNow]
  /\ wsDispatched' = [wsDispatched EXCEPT ![s] = Append(@, wsHeld[s])]
  /\ wsStats' = [wsStats EXCEPT ![s].telemetry = @ + Telemetry(wsHeld[s])]
  /\ wsHeld' = [wsHeld EXCEPT ![s] = NoPeerFrame]
  /\ IF Dispatch(wsHeld[s]) = "none"
     THEN /\ wsPc' = [wsPc EXCEPT ![s] = "read"]
          /\ UNCHANGED wsCall
     ELSE /\ wsPc' = [wsPc EXCEPT ![s] = "call"]
          /\ wsCall' = [wsCall EXCEPT ![s] = [kind |-> Dispatch(wsHeld[s]), at |-> StoreCalls]]
  /\ UNCHANGED <<cmButReader, wsBudget>>
  /\ UNCHANGED <<wsIdleTimeout, wsRateLimit, wsTicker, wsTokens, wsRead>>
  /\ UNCHANGED <<esVars, ssVars, rsVars, obVars, shVars>>

\* h.stateStore.UpdateState(conn.Identifier, stateMsg.Data)
RD_UpdateState(s) ==
  /\ wsPc[s] = "call"
  /\ wsCall[s] = [kind |-> "state", at |-> StoreCalls]
  /\ SS_UpdateState(ReaderTask(s).state, wsId[s], LivePayload)

\* h.eventStore.AddEvent(conn.Identifier, eventMsg.Event, eventMsg.Data, timestamp)
RD_AddEvent(s, ts) ==
  /\ wsPc[s] = "call"
  /\ wsCall[s] = [kind |-> "event", at |-> StoreCalls]
  /\ ES_AddEvent(ReaderTask(s).event, wsId[s], "boot", ts)

\* h.responseStore.Store(cmdResp.RequestID, conn.Identifier, "", &cmdResp)
RD_Store(s, id) ==
  /\ wsPc[s] = "call"
  /\ wsCall[s] = [kind |-> "command_response", at |-> StoreCalls]
  /\ RS_Store(id, wsId[s], "success")

\* the store call returns and the loop goes back to ReadMessage
RD_return(s) ==
  /\ wsPc[s] = "call"
  /\ StoreCalls > wsCall[s].at
  /\ ssPc[ReaderTask(s).state] = "idle"
  /\ esPc[ReaderTask(s).event] = "idle"
  /\ wsPc' = [wsPc EXCEPT ![s] = "read"]
  /\ wsCall' = [wsCall EXCEPT ![s] = NoCall]
  /\ UNCHANGED <<cmButReader, wsStats, wsBudget>>
  /\ UNCHANGED <<wsLastSeen, wsIdleTimeout, wsRateLimit, wsTicker, wsTokens, wsHeld, wsRead,
                 wsDispatched, wsMsgs>>
  /\ UNCHANGED <<esVars, ssVars, rsVars, obVars, shVars>>

\* the steps of the stores inside the calls of the reader of s
RD_inStore(s) ==
  \/ SS_saveToFile_marshal(ReaderTask(s).state)
  \/ SS_saveToFile_open(ReaderTask(s).state)
  \/ SS_saveToFile_write(ReaderTask(s).state)
  \/ SS_saveToFile_rename(ReaderTask(s).state)
  \/ SS_broadcast(ReaderTask(s).state)
  \/ ES_appendToFile(ReaderTask(s).event)
  \/ ES_broadcast(ReaderTask(s).event)

\* one peer Session from its handshake to its teardown, its reader taken
\* frame by frame, with the clock and the peer closing
NextReader ==
  \/ RS_Tick
  \/ \E p \in Peers : CM_AddConnection(1, p)
  \/ \E s \in Sessions : HandlerStep(s)
  \/ \E s \in Sessions : WS_readBreaks(s)
  \/ \E s \in Sessions, k \in FrameKinds : RD_ReadMessage(s, k)
  \/ \E s \in Sessions : RD_ticker(s)
  \/ \E s \in Sessions : RD_rateLimiter(s)
  \/ \E s \in Sessions : RD_dispatch(s)
  \/ \E s \in Sessions : RD_UpdateState(s)
  \/ \E s \in Sessions, ts \in Timestamps : RD_AddEvent(s, ts)
  \/ \E s \in Sessions, id \in RequestIDs : RD_Store(s, id)
  \/ \E s \in Sessions : RD_return(s)
  \/ \E s \in Sessions : RD_inStore(s)

(***************************************************************************)
(* The process: signal handling and shutdown (main)                        *)
(***************************************************************************)
InitProcess == shPhase = "running"

\* the signal arrives and the goroutine calls server.Shutdown: the listener
\* is closed; connections that were hijacked for WebSocket are not tracked
\* by the server and are left as they are
SH_Shutdown ==
  /\ shPhase = "running"
  /\ shPhase' = "shutdown"
  /\ UNCHANGED <<esVars, ssVars, cmVars, rsVars, obVars, rxVars>>

\* ListenAndServe returns http.ErrServerClosed and main returns: the process
\* and all its goroutines end
SH_Return ==
  /\ shPhase = "shutdown"
  /\ shPhase' = "stopped"
  /\ UNCHANGED <<esVars, ssVars, cmVars, rsVars, obVars, rxVars>>

\* the Sessions while the process lives: none is accepted once the listener
\* is closed
SH_Sessions ==
  /\ shPhase # "stopped"
  /\ NextSess
  /\ shPhase = "shutdown" => \A s \in Sessions : wsPc[s] = "new" => wsPc'[s] = "new"

NextShutdown ==
  \/ SH_Sessions
  \/ SH_Shutdown
  \/ SH_Return

(***************************************************************************)
(* The observer session (handlers.WebUIHandler.HandleWebConnection) with   *)
(* its three broadcaster tasks                                             *)
(***************************************************************************)
\* the goroutines HandleWebConnection starts: broadcastUpdates,
\* broadcastEvents, broadcastConnectionEvents
Broadcasters == {"updates", "events", "presence"}

NoEvent == NewEvent("", "", 0)

\* a WebMessage, with the task that wrote it
WebMessage(type, p, updateType, ev, scooters, by) ==
  [Type |-> type, ScooterID |-> p, UpdateType |-> updateType, Event |-> ev,
   Scooters |-> scooters, by |-> by]

NoWebMessage == WebMessage("none", "", "", NoEvent, EmptyMap, "")

\* the message a broadcaster builds from what it took from its channel
ToWeb(b, m) ==
  IF b = "updates" THEN WebMessage("state_update", m.ScooterID, m.Type, NoEvent, EmptyMap, b)
  ELSE IF b = "events" THEN WebMessage("event", m.ScooterID, "", m, EmptyMap, b)
  ELSE WebMessage(IF m.Type = "online" THEN "scooter_online" ELSE "scooter_offline",
                  m.Identifier, "", NoEvent, EmptyMap, b)

\* sendInitialEvents walks a list from its last index down to 0
OldestFirst_AsStored(list) == list
OldestFirst(list) == Reverse(list)

InitObserver ==
  /\ obPc = "new"
  /\ obChan = [b \in Broadcasters |-> 0]
  /\ obTodo = [states |-> {}, events |-> EmptyMap, cur |-> ""]
  /\ obSnap = [states |-> {}, events |-> EmptyMap]
  /\ obTask = [b \in Broadcasters |-> [at |-> "off", hold |-> NoWebMessage]]
  /\ obDone = FALSE
  /\ obNet = [closed |-> FALSE, rd |-> TRUE, wr |-> TRUE]
  /\ obWire = <<>>
  /\ obWriteFailed = FALSE

ssButSubs == <<ssStates, ssRecs, ssTop, ssNest, ssLocked, ssInodes, ssTmp, ssFinal, ssPc,
               ssData, ssFd, ssMsg, ssView, ssApplied, ssTaken, ssOps>>
esButSubs == <<esEvents, esFile, esPc, esArg, esLog, esDeleted, esJust>>
cmButSubs == <<cmConnections, wsChans, wsFirst, wsAuthResp, cmOnline, cmTotals, wsId, wsAuth,
               wsPc, wsWriter, wsKeeper, wsDone, wsSendChan, wsWriteMu, wsNet, wsStats,
               wsInWrite, wsWire, wsWriteFailed, cmRolled, cmOffline, wsLastCmd, wsBudget>>

\* conn.WriteJSON succeeds while the transport is open and its write side works
WriteJSONWorks(net) == net.wr /\ ~net.closed

\* the API key matched and the upgrade succeeded
OB_Upgrade ==
  /\ obPc = "new"
  /\ obPc' = "sendScooterList"
  /\ UNCHANGED <<obChan, obTodo, obSnap, obTask, obDone, obNet, obWire, obWriteFailed>>
  /\ UNCHANGED <<esVars, ssVars, cmVars, rsVars, shVars, rxVars>>

\* sendScooterList's scooterMap, each identifier with its Connected flag: the
\* peers in the registry, then the peers with a stored record that are not
\* in the registry
ScooterMap(connections, states) ==
  [p \in DOMAIN connections \cup DOMAIN states |-> p \in DOMAIN connections]

\* sendScooterList: the connected peers and the peers with a stored record;
\* a write error is logged and the handler goes on
OB_sendScooterList ==
  /\ obPc = "sendScooterList"
  /\ ~ssLocked
  /\ LET msg == WebMessage("scooter_list", "", "", NoEvent,
                           ScooterMap(cmConnections, ssStates), "handler") IN
       /\ obWire' = IF WriteJSONWorks(obNet) THEN Append(obWire, msg) ELSE obWire
       /\ obWriteFailed' = (obWriteFailed \/ ~WriteJSONWorks(obNet))
  /\ obPc' = "subscribeStates"
  /\ UNCHANGED <<obChan, obTodo, obSnap, obTask, obDone, obNet>>
  /\ UNCHANGED <<esVars, ssVars, cmVars, rsVars, shVars, rxVars>>

\* updateChan := h.stateStore.Subscribe()
OB_Subscribe_states ==
  /\ obPc = "subscribeStates"
  /\ ~ssLocked
  /\ ssSubs' = Append(ssSubs, <<>>)
  /\ ssSeen' = Append(ssSeen, <<>>)
  /\ obChan' = [obChan EXCEPT !["updates"] = Len(ssSubs) + 1]
  /\ obPc' = "subscribeEvents"
  /\ UNCHANGED <<obTodo, obSnap, obTask, obDone, obNet, obWire, obWriteFailed>>
  /\ UNCHANGED <<ssButSubs, esVars, cmVars, rsVars, shVars, rxVars>>

\* eventChan := h.eventStore.Subscribe()
OB_Subscribe_events ==
  /\ obPc = "subscribeEvents"
  /\ esSubs' = Append(esSubs, <<>>)
  /\ obChan' = [obChan EXCEPT !["events"] = Len(esSubs) + 1]
  /\ obPc' = "subscribePresence"
  /\ UNCHANGED <<obTodo, obSnap, obTask, obDone, obNet, obWire, obWriteFailed>>
  /\ UNCHANGED <<esButSubs, ssVars, cmVars, rsVars, shVars, rxVars>>

\* connChan := h.connMgr.Subscribe()
OB_Subscribe_presence ==
  /\ obPc = "subscribePresence"
  /\ cmSubscribers' = Append(cmSubscribers, <<>>)
  /\ cmSubIDs' = cmSubIDs \cup {Len(cmSubscribers) + 1}
  /\ cmClosed' = Append(cmClosed, 0)
  /\ cmSeen' = Append(cmSeen, <<>>)
  /\ cmEarly' = Append(cmEarly, \A s \in Sessions : wsPc[s] = "new")
  /\ obChan' = [obChan EXCEPT !["presence"] = Len(cmSubscribers) + 1]
  /\ obPc' = "sendInitialStates"
  /\ UNCHANGED <<obTodo, obSnap, obTask, obDone, obNet, obWire, obWriteFailed>>
  /\ UNCHANGED <<cmButSubs, esVars, ssVars, rsVars, shVars, rxVars>>

\* sendInitialStates: allStates := h.stateStore.GetAllStates()
OB_sendInitialStates_read ==
  /\ obPc = "sendInitialStates"
  /\ ~ssLocked
  /\ obTodo' = [obTodo EXCEPT !.states = DOMAIN ssStates]
  /\ obSnap' = [obSnap EXCEPT !.states = DOMAIN ssStates]
  /\ obPc' = "initialStates"
  /\ UNCHANGED <<obChan, obTask, obDone, obNet, obWire, obWriteFailed>>
  /\ UNCHANGED <<esVars, ssVars, cmVars, rsVars, shVars, rxVars>>

\* sendInitialStates, one turn of the loop over the map (in the map's order):
\* a full state update for peer p; a write error is logged
OB_sendInitialStates_write(p) ==
  /\ obPc = "initialStates"
  /\ p \in obTodo.states
  /\ obTodo' = [obTodo EXCEPT !.states = @ \ {p}]
  /\ LET msg == WebMessage("state_update", p, "full", NoEvent, EmptyMap, "handler") IN
       /\ obWire' = IF WriteJSONWorks(obNet) THEN Append(obWire, msg) ELSE obWire
       /\ obWriteFailed' = (obWriteFailed \/ ~WriteJSONWorks(obNet))
  /\ UNCHANGED <<obPc, obChan, obSnap, obTask, obDone, obNet>>
  /\ UNCHANGED <<esVars, ssVars, cmVars, rsVars, shVars, rxVars>>

\* the lists sendInitialEvents has to send: those that hold an event
NonEmptyLists(events) == [p \in {q \in DOMAIN events : events[q] # <<>>} |-> events[p]]

\* sendInitialEvents: allEvents := h.eventStore.GetAllEvents()
OB_sendInitialEvents_read ==
  /\ obPc = "initialStates"
  /\ obTodo.states = {}
  /\ obTodo' = [obTodo EXCEPT !.events = [p \in DOMAIN NonEmptyLists(esEvents) |->
                                           OldestFirst(esEvents[p])]]
  /\ obSnap' = [obSnap EXCEPT !.events = NonEmptyLists(esEvents)]
  /\ obPc' = "initialEvents"
  /\ UNCHANGED <<obChan, obTask, obDone, obNet, obWire, obWriteFailed>>
  /\ UNCHANGED <<esVars, ssVars, cmVars, rsVars, shVars, rxVars>>

\* sendInitialEvents, one turn of the inner loop: the next event of the peer
\* whose list is being walked (the peers come in the map's order)
OB_sendInitialEvents_write(p) ==
  /\ obPc = "initialEvents"
  /\ p \in DOMAIN obTodo.events
  /\ obTodo.cur \in {"", p}
  /\ LET rest == Tail(obTodo.events[p])
         msg == WebMessage("event", p, "", Head(obTodo.events[p]), EmptyMap, "handler")
     IN /\ obTodo' = IF rest = <<>>
                     THEN [obTodo EXCEPT !.events = MapDelete(@, p), !.cur = ""]
                     ELSE [obTodo EXCEPT !.events[p] = rest, !.cur = p]
        /\ obWire' = IF WriteJSONWorks(obNet) THEN Append(obWire, msg) ELSE obWire
        /\ obWriteFailed' = (obWriteFailed \/ ~WriteJSONWorks(obNet))
  /\ UNCHANGED <<obPc, obChan, obSnap, obTask, obDone, obNet>>
  /\ UNCHANGED <<esVars, ssVars, cmVars, rsVars, shVars, rxVars>>

\* done := make(chan struct{}) and the three go statements; the handler
\* enters its read loop
OB_startBroadcasters ==
  /\ obPc = "initialEvents"
  /\ DOMAIN obTodo.events = {}
  /\ obTask' = [b \in Broadcasters |-> [at |-> "select", hold |-> NoWebMessage]]
  /\ obPc' = "ReadMessage"
  /\ UNCHANGED <<obChan, obTodo, obSnap, obDone, obNet, obWire, obWriteFailed>>
  /\ UNCHANGED <<esVars, ssVars, cmVars, rsVars, shVars, rxVars>>

\* broadcastUpdates: the select takes an update and the task enters WriteJSON
OB_broadcastUpdates_take ==
  /\ obTask["updates"].at = "select"
  /\ ssSubs[obChan["updates"]] # <<>>
  /\ obTask' = [obTask EXCEPT !["updates"] =
                  [at |-> "WriteJSON", hold |-> ToWeb("updates", Head(ssSubs[obChan["updates"]]))]]
  /\ ssSubs' = [ssSubs EXCEPT ![obChan["updates"]] = Tail(@)]
  /\ ssSeen' = [ssSeen EXCEPT ![obChan["updates"]] = Append(@, Head(ssSubs[obChan["updates"]]))]
  /\ UNCHANGED <<obPc, obChan, obTodo, obSnap, obDone, obNet, obWire, obWriteFailed>>
  /\ UNCHANGED <<ssButSubs, esVars, cmVars, rsVars, shVars, rxVars>>

\* broadcastEvents: the select takes an event and the task enters WriteJSON
OB_broadcastEvents_take ==
  /\ obTask["events"].at = "select"
  /\ esSubs[obChan["events"]] # <<>>
  /\ obTask' = [obTask EXCEPT !["events"] =
                  [at |-> "WriteJSON", hold |-> ToWeb("events", Head(esSubs[obChan["events"]]))]]
  /\ esSubs' = [esSubs EXCEPT ![obChan["events"]] = Tail(@)]
  /\ UNCHANGED <<obPc, obChan, obTodo, obSnap, obDone, obNet, obWire, obWriteFailed>>
  /\ UNCHANGED <<esButSubs, ssVars, cmVars, rsVars, shVars, rxVars>>

\* broadcastConnectionEvents: the select takes a presence event and the task
\* enters WriteJSON
OB_broadcastConnectionEvents_take ==
  /\ obTask["presence"].at = "select"
  /\ cmSubscribers[obChan["presence"]] # <<>>
  /\ obTask' = [obTask EXCEPT !["presence"] =
                  [at |-> "WriteJSON",
                   hold |-> ToWeb("presence", Head(cmSubscribers[obChan["presence"]]))]]
  /\ cmSeen' = [cmSeen EXCEPT ![obChan["presence"]] =
                  Append(@, Head(cmSubscribers[obChan["presence"]]))]
  /\ cmSubscribers' = [cmSubscribers EXCEPT ![obChan["presence"]] = Tail(@)]
  /\ UNCHANGED <<cmSubIDs, cmClosed, cmEarly>>
  /\ UNCHANGED <<obPc, obChan, obTodo, obSnap, obDone, obNet, obWire, obWriteFailed>>
  /\ UNCHANGED <<cmButSubs, esVars, ssVars, rsVars, shVars, rxVars>>

\* WriteJSON of a broadcaster returns: the message is on the transport and
\* the task selects again, or the write failed and the task returns
OB_WriteJSON_return(b) ==
  /\ obTask[b].at = "WriteJSON"
  /\ IF WriteJSONWorks(obNet)
     THEN /\ obWire' = Append(obWire, obTask[b].hold)
          /\ obTask' = [obTask EXCEPT ![b] = [at |-> "select", hold |-> NoWebMessage]]
          /\ UNCHANGED obWriteFailed
     ELSE /\ obTask' = [obTask EXCEPT ![b] = [at |-> "returned", hold |-> NoWebMessage]]
          /\ obWriteFailed' = TRUE
          /\ UNCHANGED obWire
  /\ UNCHANGED <<obPc, obChan, obTodo, obSnap, obDone, obNet>>
  /\ UNCHANGED <<esVars, ssVars, cmVars, rsVars, shVars, rxVars>>

\* a broadcaster's select takes the closed done channel: the task returns
OB_done(b) ==
  /\ obTask[b].at = "select"
  /\ obDone
  /\ obTask' = [obTask EXCEPT ![b] = [at |-> "returned", hold |-> NoWebMessage]]
  /\ UNCHANGED <<obPc, obChan, obTodo, obSnap, obDone, obNet, obWire, obWriteFailed>>
  /\ UNCHANGED <<esVars, ssVars, cmVars, rsVars, shVars, rxVars>>

\* conn.ReadMessage returns an error: close(done) and return
OB_ReadMessage_error ==
  /\ obPc = "ReadMessage"
  /\ ~obNet.rd \/ obNet.closed
  /\ obDone' = TRUE
  /\ obPc' = "Close"
  /\ UNCHANGED <<obChan, obTodo, obSnap, obTask, obNet, obWire, obWriteFailed>>
  /\ UNCHANGED <<esVars, ssVars, cmVars, rsVars, shVars, rxVars>>

\* the deferred conn.Close()
OB_Close ==
  /\ obPc = "Close"
  /\ obNet' = [obNet EXCEPT !.closed = TRUE]
  /\ obPc' = "exited"
  /\ UNCHANGED <<obChan, obTodo, obSnap, obTask, obDone, obWire, obWriteFailed>>
  /\ UNCHANGED <<esVars, ssVars, cmVars, rsVars, shVars, rxVars>>

\* the observer goes away or its connection breaks: reads fail from now on
OB_readBreaks ==
  /\ obPc # "new"
  /\ obNet.rd
  /\ obNet' = [obNet EXCEPT !.rd = FALSE]
  /\ UNCHANGED <<obPc, obChan, obTodo, obSnap, obTask, obDone, obWire, obWriteFailed>>
  /\ UNCHANGED <<esVars, ssVars, cmVars, rsVars, shVars, rxVars>>

\* the write side of the transport breaks: writes fail from now on
OB_writeBreaks ==
  /\ obPc # "new"
  /\ obNet.wr
  /\ obNet' = [obNet EXCEPT !.wr = FALSE]
  /\ UNCHANGED <<obPc, obChan, obTodo, obSnap, obTask, obDone, obWire, obWriteFailed>>
  /\ UNCHANGED <<esVars, ssVars, cmVars, rsVars, shVars, rxVars>>

\* the steps of the observer's handler
ObserverHandler ==
  \/ OB_Upgrade
  \/ OB_sendScooterList
  \/ OB_Subscribe_states
  \/ OB_Subscribe_events
  \/ OB_Subscribe_presence
  \/ OB_sendInitialStates_read
  \/ \E p \in Peers : OB_sendInitialStates_write(p)
  \/ OB_sendInitialEvents_read
  \/ \E p \in Peers : OB_sendInitialEvents_write(p)
  \/ OB_startBroadcasters
  \/ OB_ReadMessage_error
  \/ OB_Close

\* the steps of the observer's broadcaster tasks
ObserverTasks ==
  \/ OB_broadcastUpdates_take
  \/ OB_broadcastEvents_take
  \/ OB_broadcastConnectionEvents_take
  \/ \E b \in Broadcasters : OB_WriteJSON_return(b)
  \/ \E b \in Broadcasters : OB_done(b)

\* the peers whose records and events the files hold at startup
LoadedStatePeers == Peers
LoadedEventPeers == {"p1"}

\* the events the file holds for a peer at startup, newest first
StoredList(p) == <<NewEvent(p, "boot", 3), NewEvent(p, "boot", 2)>>

\* the frames applied, events stored and Sessions registered since startup
LiveInputs ==
  ssOps + Len(esLog["p1"]) + Len(esLog["p2"])
    - Cardinality(LoadedEventPeers) * Len(StoredList("p1"))
    + Cardinality({s \in Sessions : wsPc[s] # "new"})

\* what goes on around the observer: a Session applies state frames and
\* stores events, Sessions come online, the transport breaks
ObserverWorld ==
  \/ \E p \in Peers : LiveInputs < MaxLive /\ SS_UpdateState("u1", p, LivePayload)
  \/ SS_saveToFile_marshal("u1")
  \/ SS_saveToFile_open("u1")
  \/ SS_saveToFile_write("u1")
  \/ SS_saveToFile_rename("u1")
  \/ SS_broadcast("u1")
  \/ \E p \in Peers, ts \in Timestamps :
       LiveInputs < MaxLive /\ ES_AddEvent("t1", p, "boot", ts)
  \/ ES_appendToFile("t1")
  \/ ES_broadcast("t1")
  \/ \E s \in Sessions, p \in Peers : LiveInputs < MaxLive /\ CM_AddConnection(s, p)
  \/ \E s \in Sessions : CM_broadcastOnline(s)
  \/ OB_readBreaks
  \/ OB_writeBreaks

NextObserver == ObserverHandler \/ ObserverTasks \/ ObserverWorld

\* NewEventStore with a file that holds events of the peers in S
InitEventsLoaded(S) ==
  /\ esEvents = [p \in S |-> StoredList(p)]
  /\ esFile = rewriteFile([p \in S |-> StoredList(p)])
  /\ esSubs = <<>>
  /\ esPc = [t \in EventTasks |-> "idle"]
  /\ esArg = [t \in EventTasks |-> None]
  /\ esLog = [p \in Peers |-> IF p \in S THEN Reverse(StoredList(p)) ELSE <<>>]
  /\ esDeleted = [p \in Peers |-> FALSE]
  /\ esJust = <<>>

RECURSIVE LoadRecords(_, _)
\* loadFromFile of the state store: a record per peer of the file, each with
\* freshly decoded maps
LoadRecords(ps, acc) ==
  IF ps = <<>> THEN acc
  ELSE LET d == Decode(acc.top, acc.nest, DataA) IN
         LoadRecords(Tail(ps),
                     [states |-> MapSet(acc.states, Head(ps), Len(acc.recs) + 1),
                      recs |-> Append(acc.recs, [State |-> d.addr, Version |-> "v1",
                                                 LastChangeAt |-> 0]),
                      top |-> d.top, nest |-> d.nest])

Loaded(S) ==
  LoadRecords(SelectSeq(PeerOrder, LAMBDA p : p \in S),
              [states |-> EmptyMap, recs |-> <<>>, top |-> <<>>, nest |-> <<>>])

\* NewStateStore with a state file that holds records of the peers in S
InitStateLoaded(S) ==
  LET l == Loaded(S) IN
    /\ ssStates = l.states
    /\ ssRecs = l.recs
    /\ ssTop = l.top
    /\ ssNest = l.nest
    /\ ssLocked = FALSE
    /\ ssSubs = <<>>
    /\ ssInodes = IF S = {} THEN <<>>
                  ELSE <<Serialize(Marshal(l.states, l.recs, l.top, l.nest))>>
    /\ ssTmp = 0
    /\ ssFinal = IF S = {} THEN 0 ELSE 1
    /\ ssPc = [t \in StateTasks |-> "idle"]
    /\ ssData = [t \in StateTasks |-> <<>>]
    /\ ssFd = [t \in StateTasks |-> 0]
    /\ ssMsg = [t \in StateTasks |-> NoMsg]
    /\ ssView = NoView
    /\ ssApplied = [i \in 1..Len(l.recs) |->
                      <<[type |-> "state", pl |-> [isNil |-> FALSE, data |-> DataA]]>>]
    /\ ssTaken = {}
    /\ ssOps = 0
    /\ ssSeen = <<>>

\* the server started on the files of an earlier run
InitLoaded ==
  /\ InitEventsLoaded(LoadedEventPeers)
  /\ InitStateLoaded(LoadedStatePeers)
  /\ InitSess
  /\ InitResp
  /\ InitObserver
  /\ InitProcess
  /\ InitReader({IdleTimeout}, {0})

(***************************************************************************)
(* Specifications                                                          *)
(***************************************************************************)
Init ==
  /\ InitEvents /\ InitState /\ InitSess /\ InitResp /\ InitObserver /\ InitProcess
  /\ InitReader({IdleTimeout}, {0})

\* the server started with or without an idle timeout
InitKeeper ==
  /\ InitEvents /\ InitState /\ InitSess /\ InitResp /\ InitObserver /\ InitProcess
  /\ InitReader({0, IdleTimeout}, {0})

SpecEvents == Init /\ [][NextEvents]_vars

\* the state store and the Sessions that write to it, no observer connected
SpecState == Init /\ [][StateCalls(Payloads)]_vars

\* the state store with a reader and Sessions whose frames all carry a data object
SpecStateRead == Init /\ [][StateCalls(MapPayloads) \/ NextStateReads]_vars
\* the state store, its readers, and what the readers do to their results
SpecStateCallers ==
  Init /\ [][StateCalls(MapPayloads) \/ NextStateReads \/ NextStateCallers]_vars

\* the state store with the Sessions that write to it and its subscribers
SpecStateSubs == Init /\ [][StateCalls(Payloads) \/ NextStateSubs]_vars

\* the registry and the peer Sessions
SpecSess == Init /\ [][NextSess]_vars

\* the same, with every task scheduled
SpecSessFair == SpecSess /\ FairSess

\* the server started with or without a rate limit
InitLimiter ==
  /\ InitEvents /\ InitState /\ InitSess /\ InitResp /\ InitObserver /\ InitProcess
  /\ InitReader({IdleTimeout}, {0, RateLimit})

\* one peer Session with its reader taken frame by frame
SpecReader == InitLimiter /\ [][NextReader]_vars

\* the Sessions with a clock and the keeper's idle check, every task scheduled
SpecKeeper == InitKeeper /\ [][NextKeeper]_vars /\ FairSess

\* the registry and the peer Sessions with the presence subscribers
SpecPresence == Init /\ [][NextSess \/ NextPresence]_vars

\* the Sessions with peers whose first frame is refused
SpecAuth == Init /\ [][NextAuth]_vars

\* the Sessions with callers of Connection.Close
SpecClose == Init /\ [][NextClose]_vars

\* the registry with subscribers that come and go
SpecSubscriptions == Init /\ [][NextSubscriptions]_vars

\* an observer session on a server that holds persisted states and events,
\* with a Session that reports states and events and Sessions coming online
SpecObserver == InitLoaded /\ [][NextObserver]_vars

\* the Sessions and the shutdown of the process
SpecShutdown == Init /\ [][NextShutdown]_vars

\* the response store with the commands sent and the responses dispatched
SpecResp == Init /\ [][NextResp]_vars

(***************************************************************************)
(* Claims about the event log                                              *)
(***************************************************************************)
EventsQuiescent == \A t \in EventTasks : esPc[t] = "idle"

\* C9: once every AddEvent, DeleteEvent and ClearEvents call has returned, a
\* fresh EventStore loaded from the same file with the same cap returns for
\* every peer the list the in-memory store holds (same events, same
\* newest-first order, none missing, none duplicated).
C9_ReloadEqualsMemory ==
  EventsQuiescent =>
    \A p \in Peers : GetEvents(loadFromFile(esFile), p, 0) = GetEvents(esEvents, p, 0)

\* C10: right after AddEvent(P, ...) stored its event, GetEvents(P, 0)[0] is
\* that event; without deletes the list of P is the MaxPerScooter most
\* recently appended events in reverse append order (so exactly
\* MaxPerScooter entries after MaxPerScooter + k appends); and
\* GetEvents(P, n) with 0 < n < length is the first n entries of that list.
C10_NewestFirstCapped ==
  /\ esJust # <<>> =>
        LET l == GetEvents(esEvents, esJust[1], 0) IN Len(l) > 0 /\ l[1] = esJust[2]
  /\ \A p \in Peers :
        ~esDeleted[p] =>
          /\ GetEvents(esEvents, p, 0) = FirstN(Reverse(esLog[p]), MaxPerScooter)
          /\ Len(esLog[p]) >= MaxPerScooter => Len(GetEvents(esEvents, p, 0)) = MaxPerScooter
  /\ \A p \in Peers : \A n \in 1..MaxPerScooter :
        LET all == GetEvents(esEvents, p, 0) IN
          n < Len(all) => GetEvents(esEvents, p, n) = SubSeq(all, 1, n)

\* C10's case: a peer with more appends than the cap and no delete, seen right
\* after an AddEvent, whose list a limit can cut
C10_Witness ==
  /\ esJust # <<>>
  /\ ~esDeleted[esJust[1]]
  /\ Len(esLog[esJust[1]]) > MaxPerScooter
  /\ esLog[esJust[1]][1] # esLog[esJust[1]][Len(esLog[esJust[1]])]
  /\ Len(GetEvents(esEvents, esJust[1], 0)) > 1

(***************************************************************************)
(* Claims about the state store                                            *)
(***************************************************************************)
\* the documented merge rules, on JSON values: a full update replaces the
\* whole map, a delta merges one level
MergeRule(img, frame) ==
  LET d == frame.pl.data IN
    IF frame.type = "state" THEN d
    ELSE [k \in DOMAIN img \cup DOMAIN d |->
            IF k \notin DOMAIN d THEN img[k]
            ELSE IF k \in DOMAIN img /\ ~IsScalar(img[k]) /\ ~IsScalar(d[k])
                 THEN [f \in DOMAIN img[k] \cup DOMAIN d[k] |->
                         IF f \in DOMAIN d[k] THEN d[k][f] ELSE img[k][f]]
                 ELSE d[k]]

RECURSIVE Replay(_)
\* the image of a sequence of frames under the merge rules
Replay(frames) ==
  IF frames = <<>> THEN EmptyMap
  ELSE MergeRule(Replay(SubSeq(frames, 1, Len(frames) - 1)), frames[Len(frames)])

PrefixImages(frames) == {Replay(SubSeq(frames, 1, i)) : i \in 0..Len(frames)}

\* C2: the stored State of every peer is the image, under the merge rules, of
\* the state and change frames dispatched to it in order; and whatever a
\* reader reads through the result of a GetState or GetAllStates is the image
\* of some prefix of those frames, never a partially applied frame.
C2_ReplayAndPrefixReads ==
  /\ \A p \in DOMAIN ssStates :
       Deep(ssTop, ssNest, ssRecs[ssStates[p]].State) = Replay(ssApplied[ssStates[p]])
  /\ ssView.kind = "one" => ViewOne(ssView, ssNest) \in PrefixImages(ssApplied[ssView.rec])
  /\ ssView.kind = "all" =>
       \A p \in DOMAIN ssView.recs :
         ViewAll(ssView, p, ssRecs, ssTop, ssNest) \in PrefixImages(ssApplied[ssView.recs[p]])

StateQuiescent == \A t \in StateTasks : ssPc[t] = "idle"

\* C7: once every UpdateState, UpdateChanges, SetVersion and RemoveState call
\* has returned and every snapshot write they started has completed, a fresh
\* StateStore loaded from the state file holds exactly the in-memory states.
C7_ReloadEqualsMemory ==
  (StateQuiescent /\ ssOps > 0) =>
    SS_loadFromFile(ssInodes, ssFinal) = Marshal(ssStates, ssRecs, ssTop, ssNest)

\* C8: the state file at its final path is absent or holds exactly one
\* complete snapshot that saveToFile marshalled at one instant.
C8_FileIsOneSnapshot ==
  ssFinal = 0 \/ \E snap \in ssTaken : ssInodes[ssFinal] = Serialize(snap)

(***************************************************************************)
(* Claims about the registry and the peer Sessions                         *)
(***************************************************************************)
\* the number of online events for p in seq between index lo and index hi
RECURSIVE OnlinesBetween(_, _, _, _)
OnlinesBetween(seq, p, lo, hi) ==
  IF lo > hi THEN 0
  ELSE (IF seq[lo] = PresenceEvent("online", p) THEN 1 ELSE 0)
       + OnlinesBetween(seq, p, lo + 1, hi)

\* the index of the last offline event for p before index k (0: none)
PreviousOffline(seq, p, k) ==
  LET offs == {j \in 1..(k - 1) : seq[j] = PresenceEvent("offline", p)}
  IN IF offs = {} THEN 0 ELSE CHOOSE j \in offs : \A i \in offs : i <= j

\* C1: on a subscriber that was subscribed before any Session was added, every
\* offline event for a peer is preceded by exactly one online event for that
\* peer since the previous offline event for it (or since the subscription).
C1_OneOnlinePerOffline ==
  \A i \in DOMAIN cmSeen :
    cmEarly[i] =>
      \A p \in Peers : \A k \in DOMAIN cmSeen[i] :
        cmSeen[i][k] = PresenceEvent("offline", p) =>
          OnlinesBetween(cmSeen[i], p, PreviousOffline(cmSeen[i], p, k) + 1, k - 1) = 1

\* the reader of s has exited
ReaderExited(s) == wsPc[s] \in {"RemoveConnection", "offline", "Close", "exited"}

Registered(s) == wsId[s] \in DOMAIN cmConnections /\ cmConnections[wsId[s]] = s

\* C3: when the reader of a Session exits then, eventually, its writer and its
\* keeper have exited, the Session is not in the registry, its counters were
\* added to the totals exactly once and its offline event was published.
C3_ReaderExitTearsDown ==
  \A s \in Sessions :
    ReaderExited(s) ~>
      /\ wsWriter[s] = "exited"
      /\ wsKeeper[s] = "exited"
      /\ ~Registered(s)
      /\ cmRolled[s] = 1
      /\ cmOffline[s]

\* C4: when a write of the writer task fails then, eventually, the writer has
\* exited, the reader has stopped and the Session is out of the registry (so
\* that SendCommand finds it no more).
C4_WriteFailureTerminates ==
  \A s \in Sessions :
    wsWriteFailed[s] ~>
      /\ wsWriter[s] = "exited"
      /\ ReaderExited(s)
      /\ ~Registered(s)

\* C5: at most one task is inside a write on a Session's transport; the writer
\* task writes holding WriteMu; the handshake response is the first frame on
\* the wire and every later frame was written by the writer task.
C5_OnlyWriterWrites ==
  \A s \in Sessions :
    /\ Cardinality(wsInWrite[s]) <= 1
    /\ "writer" \in wsInWrite[s] => wsWriteMu[s] = "writer"
    /\ wsPc[s] \notin {"sendAuthResponse", "authWriting"} => wsInWrite[s] \subseteq {"writer"}
    /\ \A k \in DOMAIN wsWire[s] : wsWire[s][k] = (IF k = 1 THEN "handler" ELSE "writer")

\* the writer is inside a write, after an earlier frame of its own, while a
\* command or a keepalive waits in the queue
C5_Witness ==
  \E s \in Sessions :
    /\ wsInWrite[s] = {"writer"}
    /\ Len(wsWire[s]) >= 2
    /\ wsSendChan[s] # <<>>

\* C6: AddConnection with an identifier that is registered leaves the
\* identifier mapped to the new Session, and by then the counters of the
\* Session it replaces have been added to the totals exactly once.
C6_ReplacedSessionRolledUp ==
  [][\A s \in Sessions :
       (wsPc[s] = "new" /\ wsPc'[s] # "new" /\ wsId'[s] \in DOMAIN cmConnections)
         => /\ cmConnections'[wsId'[s]] = s
            /\ cmRolled'[cmConnections[wsId'[s]]] = 1]_vars

(***************************************************************************)
(* Claims about the command responses                                      *)
(***************************************************************************)
\* C11 as stated: for a request id SendCommand returned, result is pending as
\* long as no response frame with that id was dispatched, and holds the
\* dispatched response from then on.
C11_ResultFollowsDispatch ==
  \A id \in rsIssued :
    result(rsResponses, id) =
      (IF id \in DOMAIN rsLast THEN Parked(rsLast[id]) ELSE Pending(id))

\* C11, amended: for a request id SendCommand returned, result is pending as
\* long as no response frame with that id was dispatched; afterwards it holds
\* the last dispatched response with that id while that response is no older
\* than the TTL, and is that record or pending once it is older.
C11_ResultFollowsDispatchUntilExpiry ==
  \A id \in rsIssued :
    IF id \notin DOMAIN rsLast THEN result(rsResponses, id) = Pending(id)
    ELSE IF rsNow - rsLast[id].ReceivedAt <= Ttl
         THEN result(rsResponses, id) = Parked(rsLast[id])
         ELSE result(rsResponses, id) \in {Parked(rsLast[id]), Pending(id)}

\* a second response for an issued id has replaced the first, and another
\* issued id is still pending
C11_Witness ==
  \E id \in rsIssued, other \in rsIssued :
    /\ id \in DOMAIN rsLast
    /\ rsStored = 2
    /\ rsLast[id].Status = "success"
    /\ result(rsResponses, id) = Parked(rsLast[id])
    /\ other \notin DOMAIN rsLast
    /\ result(rsResponses, other) = Pending(other)

(***************************************************************************)
(* Claims about SendCommand and the send queue                             *)
(***************************************************************************)
\* what the claim says a SendCommand(p, ...) step does
SendCommandContract(p) ==
  IF p \notin DOMAIN cmConnections
  THEN wsLastCmd'.err = "NotConnected" /\ ~wsLastCmd'.ok
       /\ wsSendChan' = wsSendChan /\ wsStats' = wsStats
  ELSE LET r == cmConnections[p] IN
         IF ~wsAuth[r]
         THEN wsLastCmd'.err = "NotAuthenticated" /\ ~wsLastCmd'.ok
              /\ wsSendChan' = wsSendChan /\ wsStats' = wsStats
         ELSE IF Len(wsSendChan[r]) = SendChanCap
              THEN wsLastCmd'.err = "Backpressure" /\ ~wsLastCmd'.ok
                   /\ wsSendChan' = wsSendChan /\ wsStats' = wsStats
              ELSE /\ wsLastCmd'.ok
                   /\ wsSendChan' = [wsSendChan EXCEPT ![r] = Append(@, "command")]
                   /\ wsStats' = [wsStats EXCEPT ![r].commands = @ + 1]

\* C12: SendCommand fails with NotConnected, NotAuthenticated or Backpressure
\* (queue full) and then enqueues nothing and leaves commands_sent alone; on
\* success it appends exactly one command frame and adds 1 to commands_sent.
C12_SendCommandOutcomes ==
  [][\A p \in Peers : WS_SendCommand(p) => SendCommandContract(p)]_vars

\* a command was refused for backpressure after one was accepted
C12_Witness ==
  \E s \in Sessions :
    /\ wsLastCmd = [session |-> s, ok |-> FALSE, err |-> "Backpressure"]
    /\ wsStats[s].commands = 1
    /\ Len(wsSendChan[s]) = SendChanCap

\* C13: a send queue never holds more than its capacity; a keeper tick on a
\* full queue happens all the same and leaves the queue as it is, and a
\* SendCommand on a full queue fails at once and leaves the queue as it is.
C13_QueueBoundedNoBlocking ==
  [][/\ \A s \in Sessions : Len(wsSendChan'[s]) <= SendChanCap
     /\ \A s \in Sessions :
          (Len(wsSendChan[s]) = SendChanCap /\ WS_keepaliveSender_tick(s))
            => wsSendChan' = wsSendChan
     /\ \A p \in Peers :
          (/\ p \in DOMAIN cmConnections
           /\ Len(wsSendChan[cmConnections[p]]) = SendChanCap
           /\ WS_SendCommand(p))
            => ~wsLastCmd'.ok /\ wsSendChan' = wsSendChan]_vars

\* two keeper ticks and nothing else have come in, nothing was written after
\* the handshake, and the queue holds one keepalive: the second tick found the
\* queue full and was dropped
C13_Witness ==
  \E s \in Sessions :
    /\ wsLastCmd = NoCmd
    /\ wsBudget = 2
    /\ \A r \in Sessions : wsStats[r] = NoStats /\ wsNet[r] = [closed |-> FALSE, rd |-> TRUE, wr |-> TRUE]
    /\ wsSendChan[s] = <<"keepalive">>
    /\ wsWire[s] = <<"handler">>
    /\ wsWriter[s] = "select"
    /\ \A r \in Sessions \ {s} : wsSendChan[r] = <<>> /\ Len(wsWire[r]) <= 1 /\ wsWriter[r] # "writing"

(***************************************************************************)
(* Claims about the subscribers                                            *)
(***************************************************************************)
\* C14, for the state store: a producer that has applied its mutation and
\* reached its broadcast is never held up there, whatever the subscribers do.
C14_BroadcastNeverBlocks ==
  \A t \in StateTasks : ssPc[t] = "broadcast" => ENABLED SS_broadcast(t)

C16_CapacityLimit == Cardinality(DOMAIN cmConnections) <= MaxConnections

\* the Sessions that were ever added to the registry
EverAdded == {s \in Sessions : wsPc[s] # "new"}

\* C17: the totals that stats() reports equal the sums of the counters over
\* every Session ever added, registered or departed.
C17_TotalsCoverEverySession ==
  /\ GetStats.total_telemetry = SumStat(wsStats, EverAdded, "telemetry")
  /\ GetStats.total_commands = SumStat(wsStats, EverAdded, "commands")

StatusesSent(resp) == [i \in DOMAIN resp |-> resp[i].status]

\* the handler of s has read a first frame that is not a valid auth frame
Refused(s) == wsFirst[s] # NoFrame /\ Handshake(wsFirst[s]) # "ok"

\* C19: a connection whose first frame is not an auth frame, or names an
\* unknown identifier, or carries a token other than the configured one, has
\* been sent exactly one auth_response, with status "error", by the time its
\* handler is finished, and its transport is closed; it never registers a
\* Session, no presence event is published for it and its steps modify no store.
C19_RefusedHandshake ==
  [][\A s \in Sessions :
       /\ (Refused(s)' /\ wsPc'[s] = "exited")
            => /\ StatusesSent(wsAuthResp'[s]) = <<"error">>
               /\ wsNet'[s].closed
       /\ Refused(s)'
            => /\ \A p \in DOMAIN cmConnections' : cmConnections'[p] # s
               /\ ~cmOnline'[s]
       /\ (Refused(s)' /\ wsPc'[s] # wsPc[s])
            => UNCHANGED <<cmConnections, cmSubscribers, cmTotals, esVars, ssVars, rsVars>>]_vars

\* C20: when the handshake of a valid auth frame is complete and the handler
\* turns to the frames that follow, the Session is registered under its
\* identifier with Authenticated set, its online event has been broadcast,
\* the state store holds the version it reported, and the success response
\* has been written to it; no later frame is dispatched before that.
C20_HandshakeBeforeDispatch ==
  [][\A s \in Sessions :
       /\ WS_sendAuthResponse_end(s)
            => /\ wsId[s] \in DOMAIN cmConnections'
               /\ cmConnections'[wsId[s]] = s
               /\ wsAuth'[s]
               /\ cmOnline'[s]
               /\ wsId[s] \in DOMAIN ssStates'
               /\ ssRecs'[ssStates'[wsId[s]]].Version = Version(s)
               /\ StatusesSent(wsAuthResp'[s]) = <<"success">>
       /\ WS_messageReceiver_frame(s) => StatusesSent(wsAuthResp[s]) = <<"success">>]_vars

\* the reason Authenticate gave for refusing the first frame of s ("" when the
\* frame was not refused by Authenticate)
FailureReason(s) ==
  IF wsFirst[s].json /\ wsFirst[s].type = "auth" /\ wsFirst[s].fields
  THEN Authenticate(wsFirst[s].identifier, wsFirst[s].token)
  ELSE ""

\* what the peer of s can observe: the frames written to it and whether its
\* transport is closed
Observed(s) == [frames |-> wsAuthResp[s], written |-> wsWire[s], closed |-> wsNet[s].closed]

\* C21: two handshakes of which one fails for an unknown identifier and the
\* other for a wrong token show their peers the same at every point of the
\* handler, and at its end that is one auth_response with status "error"
\* and a closed transport.
C21_FailureReasonNotObservable ==
  \A s, r \in Sessions :
    (/\ FailureReason(s) = "unknown identifier"
     /\ FailureReason(r) = "invalid token"
     /\ wsPc[s] = wsPc[r])
      => /\ Observed(s) = Observed(r)
         /\ wsPc[s] = "exited"
              => /\ Len(wsAuthResp[s]) = 1
                 /\ wsAuthResp[s][1].status = "error"
                 /\ wsNet[s].closed

\* both handshakes are over: one was refused for its identifier, the other for
\* its token, and each peer got its response
C21_Witness ==
  \E s, r \in Sessions :
    /\ FailureReason(s) = "unknown identifier"
    /\ FailureReason(r) = "invalid token"
    /\ wsPc[s] = "exited" /\ wsPc[r] = "exited"
    /\ Len(wsAuthResp[s]) = 1 /\ Len(wsAuthResp[r]) = 1

(***************************************************************************)
(* Claims about the state store's updates                                  *)
(***************************************************************************)
\* the JSON value of the State stored for p (the empty map without a record)
StoredImage(p) ==
  IF p \in DOMAIN ssStates THEN Deep(ssTop, ssNest, ssRecs[ssStates[p]].State) ELSE EmptyMap

\* C22: UpdateChanges leaves the peer with a record whose State is the stored
\* State merged one level deep with the delta (a map over a map assigns the
\* delta's fields, anything else replaces the key, other keys stay; no record
\* counts as the empty State); UpdateState leaves the State equal to its map.
C22_UpdateChangesMerges ==
  [][\A t \in StateTasks, p \in Peers, pl \in Payloads :
       /\ SS_UpdateChanges(t, p, pl)
            => /\ p \in DOMAIN ssStates'
               /\ StoredImage(p)' = MergeRule(StoredImage(p), [type |-> "change", pl |-> pl])
       /\ SS_UpdateState(t, p, pl)
            => /\ p \in DOMAIN ssStates'
               /\ StoredImage(p)' = pl.data]_vars

(***************************************************************************)
(* Claims about deleting events                                            *)
(***************************************************************************)
\* every other peer has the list it had
OthersKeep(events, p) ==
  \A q \in Peers \ {p} : GetEvents(events, q, 0) = GetEvents(esEvents, q, 0)

\* C23: DeleteEvent(P, id) with the id of an event in P's list returns true
\* and leaves P's list without that event, the rest in the same order; with
\* an id no event of P has it returns false and changes nothing;
\* ClearEvents(P) leaves P without events; no other peer's list changes.
C23_DeleteRemovesIdentified ==
  \A p \in Peers :
    LET list == GetEvents(esEvents, p, 0) IN
      /\ \A i \in DOMAIN list :
           LET r == DeleteEvent(esEvents, p, list[i].ID) IN
             /\ r.ok
             /\ GetEvents(r.events, p, 0) = RemoveAt(list, i)
             /\ OthersKeep(r.events, p)
      /\ \A id \in EventIDs :
           (\A i \in DOMAIN list : list[i].ID # id)
             => LET r == DeleteEvent(esEvents, p, id) IN ~r.ok /\ r.events = esEvents
      /\ GetEvents(ClearEvents(esEvents, p), p, 0) = <<>>
      /\ OthersKeep(ClearEvents(esEvents, p), p)

\* C24: nothing the holder of a record returned by GetState or GetAllStates
\* does to it (assigning its fields, deleting keys of its State map or of the
\* nested maps) changes the records the store holds, which is what later
\* GetState and GetAllStates calls return and what saveToFile persists.
C24_CallersCannotChangeStore ==
  [][NextStateCallers =>
       Marshal(ssStates, ssRecs, ssTop, ssNest)' = Marshal(ssStates, ssRecs, ssTop, ssNest)]_vars

\* the record the store holds for a peer, as a reader sees it; a peer
\* without a record reads as the record SetVersion and the updates create
StoredRecord(p) ==
  IF p \in DOMAIN ssStates
  THEN [State |-> StoredImage(p), Version |-> ssRecs[ssStates[p]].Version,
        LastChangeAt |-> ssRecs[ssStates[p]].LastChangeAt]
  ELSE [State |-> EmptyMap, Version |-> "", LastChangeAt |-> 0]

HandlerWire == SelectSeq(obWire, LAMBDA m : m.by = "handler")

\* the place of a message kind in the initial sequence
InitialRank(m) ==
  IF m.Type = "scooter_list" THEN 1 ELSE IF m.Type = "state_update" THEN 2 ELSE 3

\* the events of peer p in the initial sequence, in the order written
InitialEvents(p) ==
  LET ms == SelectSeq(HandlerWire, LAMBDA m : m.Type = "event" /\ m.ScooterID = p)
  IN [i \in DOMAIN ms |-> ms[i].Event]

ObserverExited ==
  /\ obPc = "exited"
  /\ \A b \in Broadcasters : obTask[b].at \in {"off", "returned"}

\* C27: once a write to the observer's transport has failed the session is
\* on its way out: it has exited, or its handler or one of its broadcasters
\* can take a step (so that, scheduled fairly, it goes on until it has
\* exited); it does not sit waiting for a read error that need not come.
C27_WriteFailureExits ==
  obWriteFailed => (ObserverExited \/ ENABLED (ObserverHandler \/ ObserverTasks))

\* C28: when the process has returned from its shutdown, every Session it
\* had accepted is torn down: its transport was closed by the server, it is
\* out of the registry and its offline event was published.
C28_ShutdownTearsDownSessions ==
  shPhase = "stopped"
    => /\ cmConnections = EmptyMap
       /\ \A s \in EverAdded : wsNet[s].closed /\ cmOffline[s]

\* C29: every Session that was added to the registry and whose reader has
\* not exited is the entry registered under its identifier.
C29_RunningSessionIsRegistered ==
  \A s \in EverAdded : ~ReaderExited(s) => Registered(s)

\* the updates for peer p among those a subscriber took, in the order taken
SeenFor(i, p) == SelectSeq(ssSeen[i], LAMBDA m : m.ScooterID = p)

\* C30: the updates for one peer that a subscriber takes from its channel
\* come in the order in which they were applied to the store.  An update
\* carries the map its frame was decoded into, and the maps are allocated in
\* the order of the calls, so a later update of a peer names a later map
\* (an update of a frame without data names no map and is left out).
C30_PerPeerOrder ==
  \A i \in DOMAIN ssSeen : \A p \in Peers :
    \A j, k \in DOMAIN SeenFor(i, p) :
      (j < k /\ SeenFor(i, p)[j].State # 0 /\ SeenFor(i, p)[k].State # 0)
        => SeenFor(i, p)[j].State < SeenFor(i, p)[k].State

(***************************************************************************)
(* Claims about the keeper and the reader                                  *)
(***************************************************************************)
\* the keeper has closed the transport under a reader that is in its loop
IdleClosed(s) == wsPc[s] = "read" /\ wsNet[s].closed

C32_LimiterKeepsOrder ==
  \A s \in Sessions :
    /\ wsRead[s] = IF wsHeld[s] = NoPeerFrame THEN wsDispatched[s]
                   ELSE Append(wsDispatched[s], wsHeld[s])
    /\ wsRateLimit > 0 =>
         /\ wsTokens[s].taken =
              Len(wsDispatched[s]) + (IF wsPc[s] = "process" THEN 1 ELSE 0)
         /\ wsTokens[s].taken <= wsTokens[s].issued
    /\ wsRateLimit = 0 => wsPc[s] # "limit"

\* a second frame waits for its tick after the first one was dispatched
C32_Witness ==
  \E s \in Sessions :
    /\ wsRateLimit > 0
    /\ wsPc[s] = "limit"
    /\ wsTicker[s] = 0
    /\ Len(wsDispatched[s]) = 1
    /\ wsHeld[s].seq = 2

\* the frames the claim calls dropped: not JSON, an unknown type, or a
\* payload that does not parse as the message of its type
Dropped(f) ==
  \/ ~f.json
  \/ f.type \notin {"keepalive", "state", "change", "event", "command_response"}
  \/ ~f.fields

\* the frames of Session s that reached the dispatch and were not dropped
\* and are for a store
ForStore(s) ==
  {i \in DOMAIN wsDispatched[s] :
     ~Dropped(wsDispatched[s][i]) /\ wsDispatched[s][i].type # "keepalive"}

\* C33: the step that deals with a dropped frame leaves the state store, the
\* event log and the parked responses as they are, starts no store call,
\* leaves the Session connected and registered with its reader back at
\* ReadMessage, and still counts the frame and sets last-seen; and the
\* stores have never taken more calls than frames that were not dropped
\* were dispatched.
C33_DroppedFrameChangesNothing ==
  /\ [][\A s \in Sessions :
          (RD_dispatch(s) /\ Dropped(wsHeld[s])) =>
            /\ UNCHANGED <<esVars, ssVars, rsResponses>>
            /\ wsCall'[s] = NoCall
            /\ wsPc'[s] = "read"
            /\ wsNet'[s] = wsNet[s]
            /\ cmConnections' = cmConnections
            /\ wsMsgs'[s] = wsMsgs[s] + 1
            /\ wsLastSeen'[s] = rsNow]_vars
  /\ [](StoreCalls <= Cardinality(ForStore(1)) + Cardinality(ForStore(2)))

\* a frame that is not JSON was counted at a later time than the handshake,
\* and the state frame after it has been applied
C33_Witness ==
  \E s \in Sessions :
    /\ Len(wsDispatched[s]) = 2
    /\ ~wsDispatched[s][1].json
    /\ wsDispatched[s][2].type = "state"
    /\ wsMsgs[s] = 2
    /\ wsLastSeen[s] > 0
    /\ ssOps = 1
    /\ wsPc[s] = "read"

(***************************************************************************)
(* Claims about parking responses and the request ids                      *)
(***************************************************************************)
\* C34: what is parked under a request id is the response frame with that
\* id that was received last (one entry per id, the map being keyed by id),
\* and GetByScooter(P) is exactly the parked entries whose peer is P.
C34_ParkReplaces ==
  /\ \A id \in DOMAIN rsResponses :
       /\ rsResponses[id] = rsLast[id]
       /\ rsResponses[id].RequestID = id
  /\ \A p \in Peers :
       GetByScooter(rsResponses, p) =
         {rsLast[id] : id \in {i \in DOMAIN rsResponses : rsLast[i].ScooterID = p}}

\* two responses were received under one id, from p1 and then from p2: the
\* second is parked, listed for p2 and not for p1
C34_Witness ==
  \E id \in DOMAIN rsResponses :
    /\ rsStored = 2
    /\ DOMAIN rsLast = {id}
    /\ rsResponses[id].ScooterID = "p2"
    /\ rsResponses[id].Status = "success"
    /\ GetByScooter(rsResponses, "p2") = {rsResponses[id]}
    /\ GetByScooter(rsResponses, "p1") = {}

\* C35: any two successful SendCommand calls return different request ids.
C35_RequestIDsUnique ==
  \A i, j \in DOMAIN rsSent :
    i # j => rsSent[i].RequestID # rsSent[j].RequestID

\* C40: a response is parked under request id r with peer P only if a
\* command with request id r was sent to P.
C40_ParkedOnlyForSentCommand ==
  \A id \in DOMAIN rsResponses :
    \E i \in DOMAIN rsSent :
      /\ rsSent[i].RequestID = id
      /\ rsSent[i].ScooterID = rsResponses[id].ScooterID

(***************************************************************************)
(* Claims about the first frame and about observer sessions                *)
(***************************************************************************)
\* the handler of s is between AddConnection and the end of sendAuthResponse
Greeting(s) == wsPc[s] \in {"online", "MarkAuthenticated", "SetVersion", "sendAuthResponse", "authWriting"}

\* C36: after a successful handshake the first frame on the transport of a
\* Session is the handler's auth_response with status success: while the
\* handler has not finished writing it nothing is on the transport and no
\* other task writes, whatever SendCommand has queued meanwhile.
C36_AuthResponseFirst ==
  \A s \in Sessions :
    /\ Greeting(s) => wsWire[s] = <<>> /\ wsInWrite[s] \subseteq {"handler"}
    /\ wsWire[s] # <<>> =>
         /\ wsWire[s][1] = "handler"
         /\ wsAuthResp[s] # <<>>
         /\ wsAuthResp[s][1] = AuthResponse("success", "")
    /\ \A i \in 2..Len(wsWire[s]) : wsWire[s][i] # "handler"

\* SendCommand queued a command for a Session whose handler is still writing
\* the auth_response
C36_Witness ==
  \E s \in Sessions :
    /\ wsPc[s] = "authWriting"
    /\ wsSendChan[s] = <<"command">>
    /\ wsLastCmd = [session |-> s, ok |-> TRUE, err |-> ""]
    /\ wsInWrite[s] = {"handler"}
    /\ wsWire[s] = <<>>

\* the observer's handler has finished the initial snapshot and every write
\* to its transport has worked so far
SnapshotDone == obPc = "ReadMessage" /\ obNet.wr /\ ~obNet.closed /\ ~obWriteFailed

\* the presence events the observer has been or is being told: written to
\* its transport, held by its presence broadcaster, or waiting in its queue
ToldOnline(p) ==
  \/ \E i \in DOMAIN obWire : obWire[i].Type = "scooter_online" /\ obWire[i].ScooterID = p
  \/ obTask["presence"].hold.Type = "scooter_online" /\ obTask["presence"].hold.ScooterID = p
  \/ \E i \in DOMAIN cmSubscribers[obChan["presence"]] :
        /\ cmSubscribers[obChan["presence"]][i].Type = "online"
        /\ cmSubscribers[obChan["presence"]][i].Identifier = p

\* the initial peer list shows p as connected
ListedConnected(p) ==
  /\ HandlerWire # <<>>
  /\ p \in DOMAIN HandlerWire[1].Scooters
  /\ HandlerWire[1].Scooters[p]

\* C37: once the observer has finished its initial snapshot, every peer in
\* the registry whose online event has been published was shown as connected
\* in the initial peer list or is reported by a scooter_online message (the
\* presence queue never fills here).
C37_NoPeerMissed ==
  SnapshotDone =>
    \A p \in DOMAIN cmConnections :
      cmOnline[cmConnections[p]] => ListedConnected(p) \/ ToldOnline(p)

\* C38: at most one task at a time is inside a write to the observer's
\* transport.
C38_OneWriterAtATime ==
  Cardinality({b \in Broadcasters : obTask[b].at = "WriteJSON"}) <= 1

\* the observer sessions that are live: the one observer, from its upgrade
\* until its handler and its broadcasters have returned
LiveObservers == IF obPc = "new" \/ ObserverExited THEN 0 ELSE 1

\* C39: each of the three stores holds at most as many subscribers as there
\* are live observer sessions; once the observer session has exited, none.
C39_SubscriptionsRemoved ==
  /\ Len(ssSubs) <= LiveObservers
  /\ Len(esSubs) <= LiveObservers
  /\ Cardinality(cmSubIDs) <= LiveObservers

====
